---- MODULE Spec2Model ----
(***************************************************************************)
(* A model of the numeric kernel of house-dashboard: the colormap          *)
(* (house-dashboard-common/src/colormap.rs), the polygon geometry of the   *)
(* geographical heatmap (house-dashboard-geographical-heatmap/src/         *)
(* chart.rs), the colorbar and loadbar elements (house-dashboard-common/   *)
(* src/element) and the chart-processing loop of the binary                *)
(* (house-dashboard/src/configuration.rs and lib.rs).                      *)
(*                                                                         *)
(* f64 quantities are modelled exactly as integers or as fractions of      *)
(* integers; NaN and the infinities are separate values.  Linear-light     *)
(* colour channels are fixed-point numbers with LinearScale as the unit.   *)
(***************************************************************************)
EXTENDS Integers, Sequences, FiniteSets, TLC

VARIABLES
    colormap,   \* the Colormap built by the last constructor call, or None
    cmValue,    \* the argument of the last get_color call, or None
    cmColor,    \* the [u8; 3] returned by the last get_color call, or None
    elements,   \* the slice handed to the geometry functions
    numType,    \* the numeric type T of the geometry call: "i32" or "f64"
    geoCall,    \* the geometry function called last, or None
    geoResult,  \* what that call produced
    bar,        \* the Colorbar or Loadbar element handed to the backend
    drawn,      \* the backend calls its draw has made, in order
    barDone,    \* TRUE once draw has returned
    charts,     \* the charts configurations of the run, by index
    taskState,  \* where the future of Chart::process of each chart stands
    attempt,    \* the loop variable of Chart::process of each chart
    failed,     \* how many calls of process_inner of each chart have failed
    slept,      \* the seconds each chart has spent in sleep(delay)
    returned,   \* the Ok((index, bytes)) Chart::process of each chart returned;
                \* the bytes are named after the attempt that drew them
    saved,      \* the indices of the charts save_chart has written
    mainState,  \* "running", or how main has ended
    regions,    \* the configured regions: name -> coordinates
    isometric,  \* geographical_heatmap.isometric.unwrap_or(false)
    canvas,     \* the size of the drawing area and the margins
    normalized, \* the regions normalize_regions has returned, or None
    durString,  \* the string handed to parse_iso8601_duration
    durForm,    \* the components the string was written from, or None
    durResult,  \* what parse_iso8601_duration returned, or None before the call
    fbPixel,    \* the arguments of pixel_to_pixel
    fbResult,   \* the u32 pixel_to_pixel returned, or None before the call
    requestPc,  \* where each task stands in InfluxDBClient::request
    requests,   \* how many requests each task has started
    httpMutex,  \* the task that holds the guard of http_client, or None
    period,     \* the Period of the temporal heatmap
    instant,    \* the instant handed to instant_to_rectangle
    rectangle,  \* what instant_to_rectangle returned, or None before the call
    trend,      \* the arguments of create_chart_context, or None
    trendPc,    \* where create_chart_context stands
    rangeY,     \* its <<min_y, max_y>>, or None before compute_range
    iterations  \* how often the body of its while loop has run, up to
                \* MaxIterations

cmVars == <<colormap, cmValue, cmColor>>
geoVars == <<elements, numType, geoCall, geoResult>>
barVars == <<bar, drawn, barDone>>
normVars == <<regions, isometric, canvas, normalized>>
mainVars == <<charts, taskState, attempt, failed, slept, returned, saved, mainState>>
kernelVars == <<cmVars, geoVars, barVars, normVars, mainVars>>
durVars == <<durString, durForm, durResult>>
fbVars == <<fbPixel, fbResult>>
influxVars == <<requestPc, requests, httpMutex>>
periodVars == <<period, instant, rectangle>>
trendVars == <<trend, trendPc, rangeY, iterations>>
auxVars == <<durVars, fbVars, influxVars, periodVars, trendVars>>
vars == <<colormap, cmValue, cmColor, elements, numType, geoCall, geoResult,
          bar, drawn, barDone,
          charts, taskState, attempt, failed, slept, returned, saved, mainState,
          regions, isometric, canvas, normalized, auxVars>>

\* Option<T>: None or Some(v)
None == [some |-> FALSE]

Some(v) == [some |-> TRUE, v |-> v]

\* an f64: a fraction n / d with d > 0, an infinity of sign s, or NaN
Num(n) == [k |-> "num", n |-> n, d |-> 1]

NaN == [k |-> "nan"]

-----------------------------------------------------------------------------
(* Bounds of the model *)

\* colormap bounds min and max range over -MaxBound..MaxBound
MaxBound == 2

-----------------------------------------------------------------------------
(* Helpers for exact arithmetic *)

Abs(a) == IF a < 0 THEN -a ELSE a

Sign(a) == IF a < 0 THEN -1 ELSE IF a > 0 THEN 1 ELSE 0

\* Rust integer division and `as i32` of a quotient: rounds toward zero
TruncDiv(a, b) == Sign(a) * Sign(b) * (Abs(a) \div Abs(b))

\* f64 division a / b of two integers: a fraction with positive denominator,
\* an infinity when only b is zero, NaN for 0 / 0
FDiv(a, b) ==
    IF b = 0
    THEN IF a = 0 THEN NaN
         ELSE [k |-> "inf", s |-> Sign(a)]
    ELSE [k |-> "num", n |-> Sign(b) * a, d |-> Abs(b)]

-----------------------------------------------------------------------------
(* Colormap: house-dashboard-common/src/colormap.rs *)

ColormapTypes ==
    {"CoolWarm", "Blues", "Reds", "Greens", "Oranges", "Violets", "Grays", "Status"}

PALETTE_REDS ==
    << <<255, 245, 240>>, <<254, 224, 210>>, <<252, 187, 161>>,
       <<252, 146, 114>>, <<251, 106, 74>>, <<239, 59, 44>>,
       <<203, 24, 29>>, <<165, 15, 21>>, <<103, 0, 13>> >>

PALETTE_BLUES ==
    << <<247, 251, 255>>, <<222, 235, 247>>, <<198, 219, 239>>,
       <<158, 202, 225>>, <<107, 174, 214>>, <<66, 146, 198>>,
       <<33, 113, 181>>, <<8, 81, 156>>, <<8, 48, 107>> >>

PALETTE_GREENS ==
    << <<247, 252, 245>>, <<229, 245, 224>>, <<199, 233, 192>>,
       <<161, 217, 155>>, <<116, 196, 118>>, <<65, 171, 93>>,
       <<35, 139, 69>>, <<0, 109, 44>>, <<0, 68, 27>> >>

PALETTE_GRAYS ==
    << <<255, 255, 255>>, <<240, 240, 240>>, <<217, 217, 217>>,
       <<189, 189, 189>>, <<150, 150, 150>>, <<115, 115, 115>>,
       <<82, 82, 82>>, <<37, 37, 37>>, <<0, 0, 0>> >>

PALETTE_ORANGES ==
    << <<255, 245, 235>>, <<254, 230, 206>>, <<253, 208, 162>>,
       <<253, 174, 107>>, <<253, 141, 60>>, <<241, 105, 19>>,
       <<217, 72, 1>>, <<166, 54, 3>>, <<127, 39, 4>> >>

PALETTE_VIOLETS ==
    << <<252, 251, 253>>, <<239, 237, 245>>, <<218, 218, 235>>,
       <<188, 189, 220>>, <<158, 154, 200>>, <<128, 125, 186>>,
       <<106, 81, 163>>, <<84, 39, 143>>, <<63, 0, 125>> >>

PALETTE_COOLWARM ==
    << <<5, 48, 97>>, <<33, 102, 172>>, <<5, 113, 176>>,
       <<67, 147, 195>>, <<103, 169, 207>>, <<146, 197, 222>>,
       <<209, 229, 240>>, <<247, 247, 247>>, <<253, 219, 199>>,
       <<244, 165, 130>>, <<239, 138, 98>>, <<214, 96, 77>>,
       <<202, 0, 32>>, <<178, 24, 43>>, <<103, 0, 31>> >>

PALETTE_STATUS ==
    << <<77, 175, 74>>, <<255, 255, 51>>, <<228, 26, 28>> >>

\* the unit of a linear-light channel
LinearScale == 1048576

\* SrgbHalfSteps[k + 1] is the linear-light value of the sRGB-encoded level
\* k / 510, k = 0..510, in units of 1 / LinearScale.  Even k are the 256
\* 8-bit levels, odd k the rounding boundaries between two levels.
SrgbHalfSteps == <<
    0, 159, 318, 477, 637, 796, 955, 1114, 1273, 1432, 1591, 1750,
    1910, 2069, 2228, 2387, 2546, 2705, 2864, 3024, 3183, 3343, 3509, 3680,
    3855, 4035, 4220, 4410, 4605, 4804, 5009, 5219, 5433, 5653, 5878, 6108,
    6343, 6583, 6828, 7079, 7335, 7597, 7863, 8135, 8413, 8696, 8984, 9278,
    9578, 9883, 10193, 10510, 10832, 11159, 11492, 11832, 12176, 12527, 12883, 13246,
    13614, 13988, 14368, 14754, 15145, 15543, 15947, 16357, 16773, 17196, 17624, 18058,
    18499, 18946, 19399, 19858, 20324, 20796, 21274, 21759, 22250, 22747, 23251, 23761,
    24278, 24801, 25331, 25867, 26410, 26960, 27516, 28079, 28648, 29224, 29807, 30396,
    30993, 31596, 32205, 32822, 33445, 34076, 34713, 35357, 36008, 36666, 37331, 38003,
    38681, 39367, 40060, 40760, 41467, 42181, 42903, 43631, 44367, 45110, 45860, 46617,
    47381, 48153, 48932, 49718, 50512, 51313, 52121, 52937, 53760, 54590, 55428, 56274,
    57127, 57987, 58855, 59730, 60613, 61504, 62402, 63308, 64221, 65142, 66071, 67007,
    67951, 68903, 69862, 70830, 71805, 72787, 73778, 74776, 75783, 76797, 77819, 78848,
    79886, 80932, 81985, 83047, 84117, 85194, 86280, 87373, 88475, 89585, 90702, 91828,
    92962, 94104, 95254, 96413, 97579, 98754, 99937, 101128, 102328, 103535, 104751, 105976,
    107208, 108449, 109698, 110956, 112222, 113496, 114779, 116070, 117370, 118678, 119994, 121319,
    122653, 123995, 125345, 126704, 128072, 129448, 130833, 132226, 133628, 135039, 136458, 137886,
    139323, 140768, 142222, 143685, 145156, 146636, 148125, 149623, 151130, 152645, 154169, 155702,
    157244, 158795, 160355, 161923, 163501, 165087, 166683, 168287, 169900, 171522, 173154, 174794,
    176443, 178102, 179769, 181446, 183131, 184826, 186530, 188242, 189964, 191696, 193436, 195186,
    196944, 198712, 200489, 202276, 204072, 205877, 207691, 209514, 211347, 213189, 215041, 216901,
    218772, 220651, 222540, 224438, 226346, 228263, 230190, 232126, 234071, 236026, 237991, 239965,
    241948, 243942, 245944, 247956, 249978, 252009, 254050, 256101, 258161, 260231, 262310, 264399,
    266498, 268606, 270724, 272852, 274990, 277137, 279294, 281461, 283637, 285824, 288020, 290226,
    292442, 294667, 296903, 299148, 301404, 303669, 305944, 308229, 310523, 312828, 315143, 317468,
    319802, 322147, 324502, 326866, 329241, 331626, 334021, 336425, 338840, 341265, 343700, 346145,
    348601, 351066, 353542, 356027, 358523, 361029, 363546, 366072, 368609, 371156, 373713, 376280,
    378858, 381446, 384044, 386652, 389271, 391900, 394539, 397189, 399849, 402520, 405201, 407892,
    410594, 413306, 416028, 418761, 421504, 424258, 427022, 429797, 432582, 435378, 438184, 441001,
    443828, 446666, 449515, 452374, 455243, 458123, 461014, 463915, 466827, 469750, 472683, 475627,
    478582, 481547, 484523, 487510, 490507, 493515, 496534, 499563, 502604, 505655, 508717, 511789,
    514873, 517967, 521072, 524188, 527315, 530452, 533601, 536760, 539930, 543111, 546303, 549506,
    552720, 555945, 559181, 562428, 565685, 568954, 572234, 575524, 578826, 582139, 585462, 588797,
    592143, 595500, 598868, 602247, 605637, 609038, 612451, 615874, 619309, 622755, 626211, 629680,
    633159, 636649, 640151, 643664, 647188, 650723, 654270, 657828, 661397, 664977, 668569, 672172,
    675786, 679411, 683048, 686697, 690356, 694027, 697709, 701403, 705108, 708824, 712552, 716291,
    720042, 723804, 727577, 731362, 735159, 738966, 742786, 746617, 750459, 754313, 758178, 762055,
    765944, 769844, 773755, 777678, 781613, 785559, 789517, 793487, 797468, 801460, 805465, 809481,
    813509, 817548, 821599, 825662, 829736, 833822, 837920, 842029, 846151, 850284, 854429, 858585,
    862753, 866933, 871125, 875329, 879545, 883772, 888011, 892262, 896525, 900799, 905086, 909384,
    913695, 918017, 922351, 926697, 931055, 935425, 939807, 944200, 948606, 953024, 957453, 961895,
    966349, 970814, 975292, 979782, 984283, 988797, 993323, 997861, 1002411, 1006973, 1011547, 1016133,
    1020731, 1025342, 1029964, 1034599, 1039246, 1043905, 1048576
>>

\* Srgb::new(c / 255.0, ..).into_linear(), one channel
IntoLinear(c) == SrgbHalfSteps[2 * c + 1]

\* Srgb::from_linear(..).into_format().into_raw(), one channel: encode and
\* round to the nearest 8-bit level
RECURSIVE NearestLevel(_, _, _)
NearestLevel(v, lo, hi) ==
    IF lo = hi
    THEN lo
    ELSE LET mid == (lo + hi + 1) \div 2
         IN  IF SrgbHalfSteps[2 * mid] <= v
             THEN NearestLevel(v, mid, hi)
             ELSE NearestLevel(v, lo, mid - 1)

FromLinear(v) == NearestLevel(v, 0, 255)

\* palette.reverse() left out
ReverseNot(s) == s

Reverse(s) == [i \in 1..Len(s) |-> s[Len(s) + 1 - i]]

BasePalette(colormap_type) ==
    CASE colormap_type = "CoolWarm" -> PALETTE_COOLWARM
      [] colormap_type = "Reds" -> PALETTE_REDS
      [] colormap_type = "Blues" -> PALETTE_BLUES
      [] colormap_type = "Greens" -> PALETTE_GREENS
      [] colormap_type = "Oranges" -> PALETTE_ORANGES
      [] colormap_type = "Violets" -> PALETTE_VIOLETS
      [] colormap_type = "Grays" -> PALETTE_GRAYS
      [] colormap_type = "Status" -> PALETTE_STATUS

\* Colormap::new_with_bounds_and_direction.  colormap_type and reversed are
\* Options (None when absent).  The gradient is the sequence of linear-light
\* stops; Gradient::new spaces them evenly over [0, 1].
new_with_bounds_and_direction(colormap_type, min, max, reversed) ==
    LET base_palette ==
            BasePalette(IF colormap_type = None THEN "Blues" ELSE colormap_type.v)
        palette == IF reversed = Some(TRUE) THEN Reverse(base_palette) ELSE base_palette
        linear_palette ==
            [i \in 1..Len(palette) |->
                <<IntoLinear(palette[i][1]), IntoLinear(palette[i][2]),
                  IntoLinear(palette[i][3])>>]
    IN  [gradient |-> linear_palette, min |-> min, max |-> max]

\* Colormap::new_with_bounds
new_with_bounds(colormap_type, min, max) ==
    new_with_bounds_and_direction(colormap_type, min, max, None)

\* The binary search of Gradient::get for the two stops around position
\* n / d, 0 < n / d < 1, among count evenly spaced stops (0-based indices;
\* stop index sits at index / (count - 1))
RECURSIVE GradientSearch(_, _, _, _, _)
GradientSearch(n, d, count, min_index, max_index) ==
    IF min_index < max_index - 1
    THEN LET index == min_index + (max_index - min_index) \div 2
         IN  IF n * (count - 1) <= index * d
             THEN GradientSearch(n, d, count, min_index, index)
             ELSE GradientSearch(n, d, count, index, max_index)
    ELSE <<min_index, max_index>>

\* min_color.mix(max_color, factor) with factor = fn / fd in [0, 1]
Mix(min_color, max_color, fn, fd) ==
    [ch \in 1..3 |->
        (min_color[ch] * fd + (max_color[ch] - min_color[ch]) * fn) \div fd]

\* Gradient::get without its two early returns: positions outside [0, 1]
\* extrapolate the first or the last segment
GradientGetUnclamped(gradient, t) ==
    LET count == Len(gradient)
    IN  IF t.k = "nan" THEN [k |-> "nan"]
        ELSE IF t.k = "inf"
        THEN [k |-> "lin", c |-> IF t.s < 0 THEN gradient[1] ELSE gradient[count]]
        ELSE LET seg == IF t.n <= 0 THEN <<0, 1>>
                        ELSE IF t.n >= t.d THEN <<count - 2, count - 1>>
                        ELSE GradientSearch(t.n, t.d, count, 0, count - 1)
                 fn == t.n * (count - 1) - seg[1] * t.d
                 fd == (seg[2] - seg[1]) * t.d
             IN  [k |-> "lin", c |-> Mix(gradient[seg[1] + 1], gradient[seg[2] + 1], fn, fd)]

\* Gradient::get(t) of the palette crate: clamps outside the first and last
\* stop, otherwise interpolates linearly between the two stops around t.
\* A NaN position passes every comparison and yields NaN channels.
GradientGet(gradient, t) ==
    LET count == Len(gradient)
    IN  IF t.k = "nan" THEN [k |-> "nan"]
        ELSE IF t.k = "inf"
        THEN [k |-> "lin", c |-> IF t.s < 0 THEN gradient[1] ELSE gradient[count]]
        ELSE IF t.n <= 0 THEN [k |-> "lin", c |-> gradient[1]]
        ELSE IF t.n >= t.d THEN [k |-> "lin", c |-> gradient[count]]
        ELSE LET seg == GradientSearch(t.n, t.d, count, 0, count - 1)
                 \* factor = (t - min) / (max - min)
                 fn == t.n * (count - 1) - seg[1] * t.d
                 fd == (seg[2] - seg[1]) * t.d
             IN  [k |-> "lin", c |-> Mix(gradient[seg[1] + 1], gradient[seg[2] + 1], fn, fd)]

\* Colormap::get_color_array; value is a fraction or NaN
get_color_array(self, value) ==
    LET position ==
            IF value.k = "nan"
            THEN FDiv(self.min, 1)
            ELSE FDiv(value.n - self.min * value.d, (self.max - self.min) * value.d)
        color == GradientGet(self.gradient, position)
    IN  IF color.k = "nan"
        THEN <<0, 0, 0>>   \* a NaN channel casts to 0
        ELSE <<FromLinear(color.c[1]), FromLinear(color.c[2]), FromLinear(color.c[3])>>

\* Colormap::get_color
get_color(self, value) == get_color_array(self, value)

CmBounds == (-MaxBound)..MaxBound
CmTypeOptions == {Some(t) : t \in ColormapTypes} \cup {None}
CmValues == {Num(n) : n \in (-MaxBound - 1)..(MaxBound + 1)} \cup {NaN}

CmIdle ==
    /\ colormap = None
    /\ cmValue = None
    /\ cmColor = None

\* a chart render builds its colormap from the configuration
ColormapNewWithBoundsAndDirection ==
    /\ colormap = None
    /\ \E colormap_type \in CmTypeOptions, min \in CmBounds,
       max \in CmBounds, reversed \in {None, Some(TRUE), Some(FALSE)} :
        /\ colormap' = Some(new_with_bounds_and_direction(colormap_type, min, max, reversed))
        /\ cmValue' = None
        /\ cmColor' = None
        /\ UNCHANGED <<geoVars, barVars, mainVars, normVars, auxVars>>

ColormapNewWithBounds ==
    /\ colormap = None
    /\ \E colormap_type \in CmTypeOptions, min \in CmBounds, max \in CmBounds :
        /\ colormap' = Some(new_with_bounds(colormap_type, min, max))
        /\ cmValue' = None
        /\ cmColor' = None
        /\ UNCHANGED <<geoVars, barVars, mainVars, normVars, auxVars>>

ColormapGetColor ==
    /\ colormap # None
    /\ \E value \in CmValues :
        /\ cmValue' = Some(value)
        /\ cmColor' = Some(get_color(colormap.v, value))
    /\ UNCHANGED <<colormap, geoVars, barVars, mainVars, normVars, auxVars>>

\* the render ends and its colormap is dropped
ColormapDrop ==
    /\ colormap # None
    /\ colormap' = None
    /\ cmValue' = None
    /\ cmColor' = None
    /\ UNCHANGED <<geoVars, barVars, mainVars, normVars, auxVars>>

-----------------------------------------------------------------------------
(* Polygon geometry: house-dashboard-geographical-heatmap/src/chart.rs *)

\* the numeric types the generic functions are used and tested with
NumTypes == {"i32", "f64"}

I32_MAX == 2147483647

I32_MIN == -2147483647 - 1

\* f64::MAX and f64::MIN.  The geometry functions only compare them with
\* coordinates, so they are represented by numbers beyond every coordinate.
F64_MAX == 1073741824

F64_MIN == -1073741824

\* Bounded::max_value and Bounded::min_value
max_value(T) == IF T = "i32" THEN I32_MAX ELSE F64_MAX

min_value(T) == IF T = "i32" THEN I32_MIN ELSE F64_MIN

\* SaturatingMul and SaturatingAdd; on f64 they are the plain operations
Saturate(T, a) ==
    IF T = "i32"
    THEN IF a > I32_MAX THEN I32_MAX ELSE IF a < I32_MIN THEN I32_MIN ELSE a
    ELSE a

saturating_mul(T, a, b) == Saturate(T, a * b)

saturating_add(T, a, b) == Saturate(T, a + b)

\* the `/` of the numeric type on two integers: i32 division truncates and
\* panics on a zero divisor, f64 division is exact and total
Panic == [k |-> "panic"]

Div(T, a, b) ==
    IF T = "i32"
    THEN IF b = 0 THEN Panic ELSE Num(TruncDiv(a, b))
    ELSE FDiv(a, b)

\* the loop of bounds_of over elements[i..], with the running (min, max)
RECURSIVE BoundsScan(_, _, _, _)
BoundsScan(es, i, min, max) ==
    IF i > Len(es)
    THEN <<min, max>>
    ELSE BoundsScan(es, i + 1,
                    IF es[i] < min THEN es[i] ELSE min,
                    IF es[i] > max THEN es[i] ELSE max)

\* bounds_of with `min` and `max` starting at zero instead of at the extreme
\* values of the type
bounds_of_from_zero(T, es) == BoundsScan(es, 1, 0, 0)

\* bounds_of
bounds_of(T, es) == BoundsScan(es, 1, max_value(T), min_value(T))

\* the ring chained with its last instead of its first element
ClosedOnLast(es) == IF es = <<>> THEN <<>> ELSE Append(es, es[Len(es)])

\* elements.iter().chain(elements.first()): the closed ring
Closed(es) == IF es = <<>> THEN <<>> ELSE Append(es, es[1])

\* the term x1 * y2 - x2 * y1 of the i-th pair of
\* closed_elements.iter().skip(1).zip(elements.iter()):
\* (x1, y1) is closed_elements[i + 1] and (x2, y2) is elements[i]
PairTermStandard(es, i) ==
    LET x1 == es[i][1]
        y1 == es[i][2]
        x2 == Closed(es)[i + 1][1]
        y2 == Closed(es)[i + 1][2]
    IN  x1 * y2 - x2 * y1

PairTerm(es, i) ==
    LET x1 == Closed(es)[i + 1][1]
        y1 == Closed(es)[i + 1][2]
        x2 == es[i][1]
        y2 == es[i][2]
    IN  x1 * y2 - x2 * y1

\* the loop of area_of over the first i pairs
RECURSIVE AreaSum(_, _)
AreaSum(es, i) == IF i = 0 THEN 0 ELSE AreaSum(es, i - 1) + PairTerm(es, i)

\* area_of without the final halving
area_of_not_halved(T, es) == Div(T, AreaSum(es, Len(es)), 1)

\* area_of
area_of(T, es) == Div(T, AreaSum(es, Len(es)), 2)

\* the loops of centroid_of over the first i pairs; c is 1 for cx, 2 for cy
RECURSIVE CentroidSum(_, _, _, _)
CentroidSum(T, es, c, i) ==
    IF i = 0
    THEN 0
    ELSE saturating_add(T, CentroidSum(T, es, c, i - 1),
            saturating_mul(T, Closed(es)[i + 1][c] + es[i][c], PairTerm(es, i)))

\* centroid_of dividing by area * 2 instead of area * 6
centroid_of_area_times_two(T, es) ==
    LET cx == CentroidSum(T, es, 1, Len(es))
        cy == CentroidSum(T, es, 2, Len(es))
        divisor == IF T = "i32" THEN area_of(T, es).n * 2 ELSE AreaSum(es, Len(es))
    IN  IF Div(T, cx, divisor) = Panic
        THEN Panic
        ELSE [k |-> "point", x |-> Div(T, cx, divisor), y |-> Div(T, cy, divisor)]

\* centroid_of.  area * 6 is computed in T; for f64 the area is the exact
\* half of the sum, so that area * 6 is three times the sum.
centroid_of(T, es) ==
    LET cx == CentroidSum(T, es, 1, Len(es))
        cy == CentroidSum(T, es, 2, Len(es))
        area == area_of(T, es)
        divisor == IF T = "i32" THEN area.n * 6 ELSE 3 * AreaSum(es, Len(es))
    IN  IF Div(T, cx, divisor) = Panic
        THEN Panic
        ELSE [k |-> "point", x |-> Div(T, cx, divisor), y |-> Div(T, cy, divisor)]

\* largest coordinate of the model's points
GridMax == 2

\* largest number of points of a polygon
MaxPoints == 3

Points == (0..GridMax) \X (0..GridMax)

\* the polygons of the unit tests
TestPolygons ==
    { << <<0, 0>>, <<0, 1>>, <<1, 1>>, <<1, 0>> >>,
      << <<0, 0>>, <<1, 1>>, <<2, 0>> >>,
      << <<0, 0>>, <<0, 2>>, <<1, 2>>, <<1, 1>>, <<2, 1>>, <<2, 0>> >>,
      << <<0, 0>>, <<0, 2>>, <<2, 2>>, <<2, 0>> >> }

\* the list of the test bounds_of_list, as the x coordinates of a path
BoundsTestList == <<1, 4, 2, 5, 7, 2, 6, -2, 6, -1>>

BoundsTestPath == [i \in 1..Len(BoundsTestList) |-> <<BoundsTestList[i], 0>>]

\* a path as draw_region hands it to centroid_of: a small triangular region
\* in pixel coordinates, away from the origin of the canvas
PixelPaths == { << <<100, 100>>, <<102, 101>>, <<101, 102>> >> }

Polygons ==
    UNION {[1..n -> Points] : n \in 0..MaxPoints}
        \cup TestPolygons \cup {BoundsTestPath} \cup PixelPaths

Column(es, c) == [i \in 1..Len(es) |-> es[i][c]]

BarIdle ==
    /\ bar = None
    /\ drawn = <<>>
    /\ barDone = FALSE

NormIdle ==
    /\ regions = <<>>
    /\ isometric = FALSE
    /\ canvas = None
    /\ normalized = None

MainIdle ==
    /\ charts = <<>>
    /\ taskState = <<>>
    /\ attempt = <<>>
    /\ failed = <<>>
    /\ slept = <<>>
    /\ returned = <<>>
    /\ saved = {}
    /\ mainState = "idle"

GeoIdle ==
    /\ elements = <<>>
    /\ numType = "i32"
    /\ geoCall = None
    /\ geoResult = None

KernelIdle == CmIdle /\ GeoIdle /\ BarIdle /\ MainIdle /\ NormIdle

DurIdle ==
    /\ durString = <<>>
    /\ durForm = None
    /\ durResult = None

FbIdle ==
    /\ fbPixel = None
    /\ fbResult = None

InfluxIdle ==
    /\ requestPc = <<>>
    /\ requests = <<>>
    /\ httpMutex = None

PeriodIdle ==
    /\ period = None
    /\ instant = None
    /\ rectangle = None

TrendIdle ==
    /\ trend = None
    /\ trendPc = "idle"
    /\ rangeY = None
    /\ iterations = 0

AuxIdle == DurIdle /\ FbIdle /\ InfluxIdle /\ PeriodIdle /\ TrendIdle

InitGeometry ==
    /\ AuxIdle
    /\ CmIdle
    /\ BarIdle
    /\ MainIdle
    /\ NormIdle
    /\ elements \in Polygons
    /\ numType \in NumTypes
    /\ geoCall = None
    /\ geoResult = None

\* bounds_of on the x and on the y coordinates, as
\* compute_all_regions_bounds calls it
CallBoundsOf ==
    /\ geoCall = None
    /\ geoCall' = Some("bounds_of")
    /\ geoResult' = Some([k |-> "bounds",
                          x |-> bounds_of(numType, Column(elements, 1)),
                          y |-> bounds_of(numType, Column(elements, 2))])
    /\ UNCHANGED <<elements, numType, cmVars, barVars, mainVars, normVars, auxVars>>

CallAreaOf ==
    /\ geoCall = None
    /\ geoCall' = Some("area_of")
    /\ geoResult' = Some(area_of(numType, elements))
    /\ UNCHANGED <<elements, numType, cmVars, barVars, mainVars, normVars, auxVars>>

CallCentroidOf ==
    /\ geoCall = None
    /\ geoCall' = Some("centroid_of")
    /\ geoResult' = Some(centroid_of(numType, elements))
    /\ UNCHANGED <<elements, numType, cmVars, barVars, mainVars, normVars, auxVars>>

NextGeometry ==
    \/ CallBoundsOf
    \/ CallAreaOf
    \/ CallCentroidOf

SpecGeometry == InitGeometry /\ [][NextGeometry]_vars

\* an explicit error result, which the functions above never produce
Err(e) == [k |-> "err", e |-> e]

\* twice the signed area of the triangle a, b, c in a y-up frame: positive
\* when a, b, c turn left (counter-clockwise)
Cross(a, b, c) == (b[1] - a[1]) * (c[2] - a[2]) - (b[2] - a[2]) * (c[1] - a[1])

Between(lo, v, hi) == (lo <= v /\ v <= hi) \/ (hi <= v /\ v <= lo)

\* p lies on the closed segment a b
OnSegment(a, b, p) ==
    /\ Cross(a, b, p) = 0
    /\ Between(a[1], p[1], b[1])
    /\ Between(a[2], p[2], b[2])

\* the closed segments a b and c d have a point in common
SegmentsMeet(a, b, c, d) ==
    \/ /\ Sign(Cross(a, b, c)) * Sign(Cross(a, b, d)) < 0
       /\ Sign(Cross(c, d, a)) * Sign(Cross(c, d, b)) < 0
    \/ OnSegment(a, b, c) \/ OnSegment(a, b, d)
    \/ OnSegment(c, d, a) \/ OnSegment(c, d, b)

Next1(es, i) == (i % Len(es)) + 1

Prev1(es, i) == ((i + Len(es) - 2) % Len(es)) + 1

\* es is a simple polygon: at least three distinct vertices, edges that are
\* not neighbours are disjoint, neighbours share their common vertex only
IsSimple(es) ==
    /\ Len(es) >= 3
    /\ \A i, j \in 1..Len(es) : i # j => es[i] # es[j]
    /\ \A i, j \in 1..Len(es) :
        i < j =>
            IF Next1(es, i) = j
            THEN ~OnSegment(es[i], es[j], es[Next1(es, j)])
                 /\ ~OnSegment(es[j], es[Next1(es, j)], es[i])
            ELSE IF Next1(es, j) = i
            THEN ~OnSegment(es[j], es[i], es[Next1(es, i)])
                 /\ ~OnSegment(es[i], es[Next1(es, i)], es[j])
            ELSE ~SegmentsMeet(es[i], es[Next1(es, i)], es[j], es[Next1(es, j)])

LexLess(p, q) == p[1] < q[1] \/ (p[1] = q[1] /\ p[2] < q[2])

\* the winding of a simple polygon in a y-up frame, read off the turn at its
\* leftmost-lowest vertex: 1 counter-clockwise, -1 clockwise
Winding(es) ==
    LET i == CHOOSE i \in 1..Len(es) : \A j \in 1..Len(es) : j # i => LexLess(es[i], es[j])
    IN  Sign(Cross(es[Prev1(es, i)], es[i], es[Next1(es, i)]))

\* C3: centroid_of on a polygon whose area_of is 0 fails with an explicit
\* DegenerateGeometryError; it never panics and never returns NaN or Inf.
C3_DegenerateGeometryDetected ==
    (/\ geoCall = Some("centroid_of")
     /\ elements # <<>>
     /\ area_of(numType, elements).n = 0)
        => geoResult = Some(Err("DegenerateGeometryError"))

\* C4: bounds_of, area_of and centroid_of called with zero points fail with
\* an EmptyGeometryError instead of returning a value.
C4_EmptyGeometryRejected ==
    (geoCall # None /\ elements = <<>>)
        => geoResult = Some(Err("EmptyGeometryError"))

\* C5 as stated: for every simple polygon for which area_of is non-zero,
\* area_of is positive when the vertices are listed counter-clockwise in a
\* y-up frame and negative when they are listed clockwise.
C5_CounterClockwisePositive ==
    (/\ geoCall = Some("area_of")
     /\ IsSimple(elements)
     /\ geoResult.v.n # 0)
        => /\ Winding(elements) = 1 => geoResult.v.n > 0
           /\ Winding(elements) = -1 => geoResult.v.n < 0

\* C5 amended: the sign of area_of encodes the winding with clockwise (in a
\* y-up frame) as the positive direction: for every simple polygon area_of
\* is never negative for clockwise and never positive for counter-clockwise
\* vertices, and it is non-zero unless the i32 halving truncates it to 0.
C5_ClockwisePositive ==
    (geoCall = Some("area_of") /\ IsSimple(elements))
        => /\ Winding(elements) = -1 => geoResult.v.n >= 0
           /\ Winding(elements) = 1 => geoResult.v.n <= 0
           /\ (numType = "f64" \/ Abs(AreaSum(elements, Len(elements))) >= 2)
                => geoResult.v.n # 0

\* C5 witness: area_of has returned 1 for the clockwise unit square of the
\* test area_of_square, and a negative area for some counter-clockwise polygon
C5_Witness ==
    /\ geoCall = Some("area_of")
    /\ elements = << <<0, 0>>, <<0, 1>>, <<1, 1>>, <<1, 0>> >>
    /\ IsSimple(elements)
    /\ Winding(elements) = -1
    /\ geoResult = Some(Num(1))

InitColormap == CmIdle /\ GeoIdle /\ BarIdle /\ MainIdle /\ NormIdle /\ AuxIdle

NextColormap ==
    \/ ColormapNewWithBoundsAndDirection
    \/ ColormapNewWithBounds
    \/ ColormapGetColor
    \/ ColormapDrop

SpecColormap == InitColormap /\ [][NextColormap]_vars

\* C1: for every Colormap with min < max, get_color(NaN) returns the same
\* colour as get_color(min), the colour of the first gradient stop.
C1_NaNIsColorOfMin ==
    (/\ colormap # None
     /\ cmValue = Some(NaN)
     /\ colormap.v.min < colormap.v.max)
        => /\ cmColor = Some(get_color(colormap.v, Num(colormap.v.min)))
           /\ cmColor.v = [ch \in 1..3 |-> FromLinear(colormap.v.gradient[1][ch])]

\* C2: constructing a Colormap with min == max fails with an
\* InvalidBoundsError, so that no Colormap with min == max is ever obtained.
C2_EqualBoundsRejected ==
    colormap # None => colormap.v.min # colormap.v.max

-----------------------------------------------------------------------------
(* Colorbar and Loadbar: house-dashboard-common/src/element *)

\* number of steps both bars divide their colormap into
BarSteps == 61

\* the (i, length) for which the f64 product i * (length / 61) falls just
\* below the integer i * length / 61, so that `as i32` yields one less
\* (all such pairs with length < 400)
F64RoundedDown ==
    {<<61, 123>>, <<61, 125>>, <<61, 127>>, <<61, 246>>, <<61, 250>>, <<61, 254>>}

\* (f64::from(i) * step) as i32, with step = f64::from(length) / f64::from(n)
StepOffset(i, length, n) ==
    (i * length) \div n - (IF <<i, length>> \in F64RoundedDown THEN 1 ELSE 0)

\* PaletteDarkTheme::COLORS and PaletteLightTheme::COLORS
PaletteDarkTheme ==
    << <<0, 0, 0>>, <<255, 255, 255>>, <<32, 32, 32>>, <<192, 192, 192>>, <<128, 128, 128>> >>

PaletteLightTheme ==
    << <<255, 255, 255>>, <<0, 0, 0>>, <<192, 192, 192>>, <<32, 32, 32>>, <<128, 128, 128>> >>

\* SystemColor::index
SystemColorIndex(color) ==
    CASE color = "Background" -> 0
      [] color = "Foreground" -> 1
      [] color = "LightBackground" -> 2
      [] color = "LightForeground" -> 3
      [] color = "Middle" -> 4

\* SystemPalette::pick
pick(system_palette, color) ==
    IF system_palette = "Dark"
    THEN PaletteDarkTheme[SystemColorIndex(color) + 1]
    ELSE PaletteLightTheme[SystemColorIndex(color) + 1]

\* backend.draw_rect(upper_left, bottom_right, color, fill); i is the loop
\* index of the call, -1 for the border
DrawRect(upper_left, bottom_right, color, fill, i) ==
    [op |-> "draw_rect", upper_left |-> upper_left, bottom_right |-> bottom_right,
     color |-> color, fill |-> fill, i |-> i]

\* format!("{0:.1$}", value, precision): the decimal digits of value rounded
\* to `precision` places, ties to the even digit; digits counts units of
\* 10^-precision
FormatFixed(value, precision) ==
    IF value.k = "nan" THEN [text |-> "NaN"]
    ELSE IF value.k = "inf" THEN [text |-> "inf", negative |-> value.s < 0]
    ELSE LET scaled == Abs(value.n) * 10^precision
             q == scaled \div value.d
             r == scaled % value.d
         IN  [negative |-> value.n < 0,
              digits |-> IF 2 * r > value.d \/ (2 * r = value.d /\ q % 2 = 1)
                         THEN q + 1 ELSE q,
              precision |-> precision]

\* backend.draw_text(&format!("{0:.1$}{2}", value, precision, unit), .., position)
DrawText(value, precision, unit, position, i) ==
    [op |-> "draw_text", text |-> <<FormatFixed(value, precision), unit>>,
     value |-> value, precision |-> precision, unit |-> unit,
     position |-> position, i |-> i]

\* Colorbar::new
ColorbarNew(position, size, bounds, precision, unit, system_palette, cm) ==
    [kind |-> "Colorbar", position |-> position, size |-> size, bounds |-> bounds,
     precision |-> precision, unit |-> unit, system_palette |-> system_palette,
     colormap |-> cm, n |-> BarSteps]

\* Loadbar::new; pos is the point the backend hands to draw
LoadbarNew(position, size, max, value, system_palette, cm) ==
    [kind |-> "Loadbar", position |-> position, size |-> size, max |-> max,
     value |-> value, system_palette |-> system_palette, colormap |-> cm,
     n |-> BarSteps]

\* the first draw_rect of Colorbar::draw
ColorbarBorder(self) ==
    DrawRect(<<self.position[1] - 1, self.position[2] - 1>>,
             <<self.position[1] + self.size[1] + 1, self.position[2] + self.size[2] + 1>>,
             pick(self.system_palette, "LightForeground"), FALSE, -1)

\* the value of band i with the bands counted from the other end
ColorbarValueAscending(self, i) ==
    FDiv(self.bounds[1] * (self.n - 1) + i * (self.bounds[2] - self.bounds[1]),
         self.n - 1)

\* the value of band i of the colorbar
ColorbarValue(self, i) ==
    FDiv(self.bounds[1] * (self.n - 1) + (self.n - i - 1) * (self.bounds[2] - self.bounds[1]),
         self.n - 1)

\* one iteration of the loop of Colorbar::draw: the calls it makes
ColorbarBand(self, i) ==
    LET height == self.size[2]
        label_count == 4
        label_step == self.n \div label_count
        upper_left ==
            <<self.position[1], self.position[2] + StepOffset(i, height, self.n)>>
        bottom_right ==
            <<self.position[1] + self.size[1] + 1,
              self.position[2] + StepOffset(i + 1, height, self.n) + 1>>
        value == ColorbarValue(self, i)
        color == get_color(self.colormap, value)
        position ==
            <<self.position[1] + self.size[1] + 5,
              TruncDiv(upper_left[2] + bottom_right[2], 2)>>
    IN  <<DrawRect(upper_left, bottom_right, color, TRUE, i)>>
        \o (IF i % label_step = 0
            THEN <<DrawText(value, self.precision, self.unit, position, i)>>
            ELSE <<>>)

\* the calls of the iterations i, i + 1, .. of the loop of Colorbar::draw
RECURSIVE ColorbarBands(_, _)
ColorbarBands(self, i) ==
    IF i >= self.n THEN <<>> ELSE ColorbarBand(self, i) \o ColorbarBands(self, i + 1)

\* Colorbar::draw
ColorbarDrawCalls(self) == <<ColorbarBorder(self)>> \o ColorbarBands(self, 0)

\* the first draw_rect of Loadbar::draw, (x, y) being self.position
LoadbarBorder(self) ==
    LET x == self.position[1]
        y == self.position[2]
    IN  DrawRect(<<x - TruncDiv(self.size[1], 2) - 1, y - TruncDiv(self.size[2], 2) - 1>>,
                 <<x + TruncDiv(self.size[1], 2) + 1, y + TruncDiv(self.size[2], 2)>>,
                 pick(self.system_palette, "LightForeground"), FALSE, -1)

\* last = ((f64::from(self.n) * self.value) / self.max).trunc() as i32
LoadbarLastCeil(self) ==
    -((-(self.n * self.value.n)) \div (self.value.d * self.max))

LoadbarLast(self) == TruncDiv(self.n * self.value.n, self.value.d * self.max)

\* one iteration of the loop of Loadbar::draw that does not break
LoadbarBand(self, i) ==
    LET x == self.position[1]
        y == self.position[2]
        width == self.size[1]
        upper_left ==
            <<x - TruncDiv(self.size[1], 2) + StepOffset(i, width, self.n),
              y - TruncDiv(self.size[2], 2)>>
        bottom_right ==
            <<x - TruncDiv(self.size[1], 2) + StepOffset(i + 1, width, self.n),
              y + TruncDiv(self.size[2], 2)>>
        value == FDiv(i * self.max, self.n)
        color == get_color(self.colormap, value)
    IN  <<DrawRect(upper_left, bottom_right, color, TRUE, i)>>

\* the calls of the iterations i, i + 1, .. of the loop of Loadbar::draw
RECURSIVE LoadbarBands(_, _)
LoadbarBands(self, i) ==
    IF i >= self.n \/ i >= LoadbarLast(self)
    THEN <<>>
    ELSE LoadbarBand(self, i) \o LoadbarBands(self, i + 1)

\* Loadbar::draw
LoadbarDrawCalls(self) == <<LoadbarBorder(self)>> \o LoadbarBands(self, 0)

\* largest thickness of a bar in pixels (width of a colorbar, height of a
\* loadbar); the charts use 10
MaxBarWidth == 10

\* an odd and an even thickness
BarWidths == (MaxBarWidth - 1)..MaxBarWidth

\* largest length of a bar in pixels (height of a colorbar, width of a loadbar)
MaxBarLength == 62

\* from the 40 pixels of the charts' loadbars to more pixels than steps
BarLengths == 40..MaxBarLength

\* largest max of a loadbar
MaxLoad == 2

\* loads are multiples of 1 / LoadResolution
LoadResolution == 8

BarPositions == {<<40, 10>>}

\* the precision of the labels of a colorbar
Precisions == 0..1

BarBounds == {<<lo, hi>> : lo \in 0..1, hi \in 1..MaxBound}

SystemPalettes == {"Dark", "Light"}

\* draw_colorbar of the heatmap charts: the colorbar shares the bounds of
\* the chart's colormap
Colorbars ==
    {ColorbarNew(position, <<w, h>>, bounds, precision, "", system_palette,
                 new_with_bounds_and_direction(None, bounds[1], bounds[2], None)) :
        position \in BarPositions, w \in BarWidths, h \in BarLengths,
        bounds \in BarBounds, precision \in Precisions, system_palette \in SystemPalettes}

\* draw_host_loadbar of the summary charts: the Status colormap over [0, max]
Loadbars ==
    UNION {
        {LoadbarNew(position, <<w, h>>, max, FDiv(a, LoadResolution), system_palette,
                    new_with_bounds(Some("Status"), 0, max)) :
            position \in BarPositions, w \in BarLengths, h \in BarWidths,
            a \in (-1)..(max * LoadResolution + 1), system_palette \in {"Dark"}} :
        max \in 1..MaxLoad}

InitBars ==
    /\ AuxIdle
    /\ CmIdle
    /\ GeoIdle
    /\ MainIdle
    /\ NormIdle
    /\ bar \in {Some(b) : b \in Colorbars \cup Loadbars}
    /\ drawn = <<>>
    /\ barDone = FALSE

ColorbarDraw ==
    /\ ~barDone
    /\ bar # None
    /\ bar.v.kind = "Colorbar"
    /\ drawn' = ColorbarDrawCalls(bar.v)
    /\ barDone' = TRUE
    /\ UNCHANGED <<bar, cmVars, geoVars, mainVars, normVars, auxVars>>

LoadbarDraw ==
    /\ ~barDone
    /\ bar # None
    /\ bar.v.kind = "Loadbar"
    /\ drawn' = LoadbarDrawCalls(bar.v)
    /\ barDone' = TRUE
    /\ UNCHANGED <<bar, cmVars, geoVars, mainVars, normVars, auxVars>>

NextBars ==
    \/ ColorbarDraw
    \/ LoadbarDraw

SpecBars == InitBars /\ [][NextBars]_vars

\* the pixels a filled draw_rect paints: both corners are inclusive
RectPixels(r) ==
    LET x0 == IF r.upper_left[1] <= r.bottom_right[1] THEN r.upper_left[1] ELSE r.bottom_right[1]
        x1 == IF r.upper_left[1] <= r.bottom_right[1] THEN r.bottom_right[1] ELSE r.upper_left[1]
        y0 == IF r.upper_left[2] <= r.bottom_right[2] THEN r.upper_left[2] ELSE r.bottom_right[2]
        y1 == IF r.upper_left[2] <= r.bottom_right[2] THEN r.bottom_right[2] ELSE r.upper_left[2]
    IN  {<<x, y>> : x \in x0..x1, y \in y0..y1}

\* the pixels an unfilled draw_rect paints: the four sides of the rectangle
OutlinePixels(r) ==
    {p \in RectPixels(r) :
        \/ p[1] \in {r.upper_left[1], r.bottom_right[1]}
        \/ p[2] \in {r.upper_left[2], r.bottom_right[2]}}

\* the filled rectangles among the calls, in order
FilledRects(calls) == SelectSeq(calls, LAMBDA c : c.op = "draw_rect" /\ c.fill)

\* the unfilled rectangles among the calls, in order
BorderRects(calls) == SelectSeq(calls, LAMBDA c : c.op = "draw_rect" /\ ~c.fill)

\* the rectangle (position, size) the bar was asked to fill: size[1] by
\* size[2] pixels, from position for a colorbar and centred on position
\* for a loadbar
SourcePixels(self) ==
    LET x0 == IF self.kind = "Colorbar"
              THEN self.position[1]
              ELSE self.position[1] - TruncDiv(self.size[1], 2)
        y0 == IF self.kind = "Colorbar"
              THEN self.position[2]
              ELSE self.position[2] - TruncDiv(self.size[2], 2)
    IN  {<<x, y>> : x \in x0..(x0 + self.size[1] - 1), y \in y0..(y0 + self.size[2] - 1)}

\* a bar that draws all its bands: a colorbar, or a loadbar at full load
FullBar ==
    /\ barDone
    /\ \/ bar.v.kind = "Colorbar"
       \/ bar.v.kind = "Loadbar" /\ bar.v.value.n >= bar.v.value.d * bar.v.max

\* the length in pixels of the side the bands divide
BarLength(self) == IF self.kind = "Colorbar" THEN self.size[2] ELSE self.size[1]

\* C6: a bar that draws all its bands and has at least one pixel for each
\* emits exactly 61 filled rectangles; no two of them share a pixel, and
\* together they cover the pixels of the source rectangle and no others.
C6_BandsTileSourceRectangle ==
    (FullBar /\ BarLength(bar.v) >= BarSteps) =>
        LET bands == FilledRects(drawn)
        IN  /\ Len(bands) = BarSteps
            /\ \A i, j \in 1..Len(bands) :
                    i < j => RectPixels(bands[i]) \cap RectPixels(bands[j]) = {}
            /\ UNION {RectPixels(bands[i]) : i \in 1..Len(bands)} = SourcePixels(bar.v)

\* the loop indices of the bands the loadbar has filled
DrawnBands == {FilledRects(drawn)[k].i : k \in 1..Len(FilledRects(drawn))}

\* C7 as stated: the loadbar fills exactly the bands i in 0..N-1 with
\* i / N < value / max.
C7_FillsBandsStartingBelowLoad ==
    (barDone /\ bar.v.kind = "Loadbar") =>
        DrawnBands =
            {i \in 0..(bar.v.n - 1) :
                i * bar.v.value.d * bar.v.max < bar.v.n * bar.v.value.n}

\* C7 amended: the loadbar fills exactly the bands i in 0..N-1 that lie
\* wholly below the load, (i + 1) / N <= value / max; the band that value / max
\* falls inside is not filled.
C7_FillsBandsWhollyBelowLoad ==
    (barDone /\ bar.v.kind = "Loadbar") =>
        DrawnBands =
            {i \in 0..(bar.v.n - 1) :
                (i + 1) * bar.v.value.d * bar.v.max <= bar.v.n * bar.v.value.n}

\* C7 witness: a drawn loadbar whose load falls strictly inside a band that
\* has filled bands before it.
C7_Witness ==
    /\ barDone
    /\ bar.v.kind = "Loadbar"
    /\ \E i \in 1..(bar.v.n - 1) :
        /\ i * bar.v.value.d * bar.v.max < bar.v.n * bar.v.value.n
        /\ bar.v.n * bar.v.value.n < (i + 1) * bar.v.value.d * bar.v.max
        /\ Len(FilledRects(drawn)) = i

\* C8: in a finished bar the border is one rectangle outline in the border
\* colour, the bands reach to one pixel inside it on each of the four sides,
\* and no band paints a pixel of the outline.
C8_BorderSurroundsBands ==
    (barDone /\ Len(FilledRects(drawn)) > 0) =>
        LET bands == FilledRects(drawn)
            borders == BorderRects(drawn)
            painted == UNION {RectPixels(bands[i]) : i \in 1..Len(bands)}
        IN  /\ Len(borders) = 1
            /\ borders[1].color = pick(bar.v.system_palette, "LightForeground")
            /\ painted \cap OutlinePixels(borders[1]) = {}
            /\ \A p \in painted : p[1] > borders[1].upper_left[1]
                                  /\ p[1] < borders[1].bottom_right[1]
                                  /\ p[2] > borders[1].upper_left[2]
                                  /\ p[2] < borders[1].bottom_right[2]
            /\ \E p \in painted : p[1] = borders[1].upper_left[1] + 1
            /\ \E p \in painted : p[2] = borders[1].upper_left[2] + 1
            /\ \E p \in painted : p[2] = borders[1].bottom_right[2] - 1
            /\ FullBar => \E p \in painted : p[1] = borders[1].bottom_right[1] - 1

-----------------------------------------------------------------------------
(* Chart::process and main: house-dashboard/src/configuration.rs, lib.rs *)

\* one attempt more than MAX_ATTEMPTS
MAX_ATTEMPTS_PLUS_ONE == 4 + 1

\* Maximum attempts for processing the chart
MAX_ATTEMPTS == 4

\* number of charts configurations of a run
NumCharts == 2

\* the paths draw_region gets after the cast to i32: no point, three points
\* on a line, and a square
RegionPaths ==
    { <<>>,
      << <<0, 0>>, <<1, 1>>, <<2, 2>> >>,
      << <<0, 0>>, <<0, 2>>, <<2, 2>>, <<2, 0>> >> }

\* a chart: a kind, and for a geographical heatmap the path of its region and
\* the value the database holds for it; without a value the path is not
\* looked at
ChartConfigurations ==
    {[kind |-> "Trend", path |-> <<>>, value |-> None]}
    \cup {[kind |-> "GeographicalHeatMap", path |-> path, value |-> Some(Num(1))] :
            path \in RegionPaths}
    \cup {[kind |-> "GeographicalHeatMap", path |-> <<>>, value |-> None]}

\* 2_u64.checked_pow(attempt + 3).unwrap_or(10)
Delay(a) == 2 ^ (a + 3)

\* draw_region: centroid_of is called when the region has a value, and its
\* division panics when the area of the path is zero
DrawRegionPanics(chart) ==
    /\ chart.kind = "GeographicalHeatMap"
    /\ chart.value # None
    /\ centroid_of("i32", chart.path) = Panic

InitMain ==
    /\ AuxIdle
    /\ CmIdle
    /\ GeoIdle
    /\ BarIdle
    /\ NormIdle
    /\ charts \in [1..NumCharts -> ChartConfigurations]
    /\ taskState = [c \in 1..NumCharts |-> "attempting"]
    /\ attempt = [c \in 1..NumCharts |-> 0]
    /\ failed = [c \in 1..NumCharts |-> 0]
    /\ slept = [c \in 1..NumCharts |-> 0]
    /\ returned = [c \in 1..NumCharts |-> None]
    /\ saved = {}
    /\ mainState = "running"

\* process_inner returns Ok: Chart::process returns it
ProcessInnerOk(c) ==
    /\ mainState = "running"
    /\ taskState[c] = "attempting"
    /\ ~DrawRegionPanics(charts[c])
    /\ taskState' = [taskState EXCEPT ![c] = "ok"]
    /\ returned' = [returned EXCEPT ![c] = Some([index |-> c, bytes |-> <<c, attempt[c]>>])]
    /\ UNCHANGED <<charts, attempt, failed, slept, saved, mainState,
                   cmVars, geoVars, barVars, normVars, auxVars>>

\* process_inner returns Err (a query or a drawing call failed):
\* Chart::process logs it and goes to sleep
ProcessInnerErr(c) ==
    /\ mainState = "running"
    /\ taskState[c] = "attempting"
    /\ taskState' = [taskState EXCEPT ![c] = "sleeping"]
    /\ failed' = [failed EXCEPT ![c] = @ + 1]
    /\ UNCHANGED <<charts, returned, attempt, slept, saved, mainState,
                   cmVars, geoVars, barVars, normVars, auxVars>>

\* process_inner panics in draw_region: the panic unwinds through
\* tasks.next() and main
ProcessInnerPanic(c) ==
    /\ mainState = "running"
    /\ taskState[c] = "attempting"
    /\ DrawRegionPanics(charts[c])
    /\ taskState' = [taskState EXCEPT ![c] = "panicked"]
    /\ mainState' = "panicked"
    /\ UNCHANGED <<charts, returned, attempt, failed, slept, saved,
                   cmVars, geoVars, barVars, normVars, auxVars>>

\* sleep(delay) is over: the loop continues with the next attempt, or ends
\* and Chart::process returns Err
SleepElapsed(c) ==
    /\ mainState = "running"
    /\ taskState[c] = "sleeping"
    /\ slept' = [slept EXCEPT ![c] = @ + Delay(attempt[c])]
    /\ attempt' = [attempt EXCEPT ![c] = @ + 1]
    /\ taskState' = [taskState EXCEPT
                        ![c] = IF attempt[c] + 1 < MAX_ATTEMPTS
                               THEN "attempting"
                               ELSE "err"]
    /\ UNCHANGED <<charts, returned, failed, saved, mainState, cmVars, geoVars, barVars, normVars, auxVars>>

\* tasks.next() yields Ok((index, bytes)) and save_chart writes the file
MainSaveChart(c) ==
    /\ mainState = "running"
    /\ taskState[c] = "ok"
    /\ taskState' = [taskState EXCEPT ![c] = "done"]
    /\ saved' = saved \cup {c}
    /\ UNCHANGED <<charts, returned, attempt, failed, slept, mainState,
                   cmVars, geoVars, barVars, normVars, auxVars>>

\* tasks.next() yields Ok((index, bytes)) and save_chart fails: main
\* returns the error
MainSaveChartErr(c) ==
    /\ mainState = "running"
    /\ taskState[c] = "ok"
    /\ taskState' = [taskState EXCEPT ![c] = "done"]
    /\ mainState' = "cannot save image"
    /\ UNCHANGED <<charts, returned, attempt, failed, slept, saved,
                   cmVars, geoVars, barVars, normVars, auxVars>>

\* tasks.next() yields the Err of Chart::process: result? returns it from main
MainChartErr(c) ==
    /\ mainState = "running"
    /\ taskState[c] = "err"
    /\ taskState' = [taskState EXCEPT ![c] = "done"]
    /\ mainState' = "chart failed"
    /\ UNCHANGED <<charts, returned, attempt, failed, slept, saved,
                   cmVars, geoVars, barVars, normVars, auxVars>>

\* tasks.next() yields None: main returns Ok(())
MainReturnOk ==
    /\ mainState = "running"
    /\ \A c \in DOMAIN charts : taskState[c] = "done"
    /\ mainState' = "ok"
    /\ UNCHANGED <<charts, returned, taskState, attempt, failed, slept, saved,
                   cmVars, geoVars, barVars, normVars, auxVars>>

NextMain ==
    \/ \E c \in DOMAIN charts : ProcessInnerOk(c)
    \/ \E c \in DOMAIN charts : ProcessInnerErr(c)
    \/ \E c \in DOMAIN charts : ProcessInnerPanic(c)
    \/ \E c \in DOMAIN charts : SleepElapsed(c)
    \/ \E c \in DOMAIN charts : MainSaveChart(c)
    \/ \E c \in DOMAIN charts : MainSaveChartErr(c)
    \/ \E c \in DOMAIN charts : MainChartErr(c)
    \/ MainReturnOk

SpecMain == InitMain /\ [][NextMain]_vars

\* C9: Chart::process returns an error only after more than MAX_ATTEMPTS
\* calls of process_inner have failed in a row.
C9_ErrorOnlyAfterMoreThanMaxAttempts ==
    \A c \in DOMAIN charts : taskState[c] = "err" => failed[c] > MAX_ATTEMPTS

\* C10: a region whose path has no area or no point is skipped: neither the
\* future of its chart nor main panics.
C10_GeometryFailureStaysLocal ==
    /\ mainState # "panicked"
    /\ \A c \in DOMAIN charts : taskState[c] # "panicked"

-----------------------------------------------------------------------------
(* Claims on the colormap, continued *)

\* the last get_color call was made with a number on a colormap with min < max
ColorOfNumber ==
    /\ colormap # None
    /\ cmColor # None
    /\ cmValue.v.k = "num"
    /\ colormap.v.min < colormap.v.max

\* C11: on a colormap with min < max every value below min gets the colour of
\* min and every value above max gets the colour of max, and get_color
\* always returns three 8-bit channels.
C11_OutOfRangeIsClamped ==
    ColorOfNumber =>
        /\ cmValue.v.n < colormap.v.min * cmValue.v.d =>
                cmColor.v = get_color(colormap.v, Num(colormap.v.min))
        /\ cmValue.v.n > colormap.v.max * cmValue.v.d =>
                cmColor.v = get_color(colormap.v, Num(colormap.v.max))
        /\ \A ch \in 1..3 : cmColor.v[ch] \in 0..255

\* C11 witness: a colour was fetched for a value below min from a colormap
\* whose first and last colours differ.
C11_Witness ==
    /\ ColorOfNumber
    /\ cmValue.v.n < colormap.v.min * cmValue.v.d
    /\ get_color(colormap.v, Num(colormap.v.min)) # get_color(colormap.v, Num(colormap.v.max))

\* C12: on a colormap with min < max built from a palette, get_color(min) is
\* the first stop of the palette and get_color(max) the last one; with
\* reversed = Some(true) the two are swapped.
C12_EndpointsArePaletteEnds ==
    ColorOfNumber =>
        \A colormap_type \in CmTypeOptions, reversed \in {None, Some(TRUE), Some(FALSE)} :
            colormap.v = new_with_bounds_and_direction(colormap_type, colormap.v.min,
                                                       colormap.v.max, reversed)
            => LET palette == BasePalette(IF colormap_type = None
                                          THEN "Blues" ELSE colormap_type.v)
                   first == palette[1]
                   last == palette[Len(palette)]
               IN  /\ cmValue.v.n = colormap.v.min * cmValue.v.d =>
                        cmColor.v = (IF reversed = Some(TRUE) THEN last ELSE first)
                   /\ cmValue.v.n = colormap.v.max * cmValue.v.d =>
                        cmColor.v = (IF reversed = Some(TRUE) THEN first ELSE last)

\* C12 witness: get_color(max) was called on a reversed CoolWarm colormap and
\* returned the first stop of the palette.
C12_Witness ==
    /\ ColorOfNumber
    /\ colormap.v = new_with_bounds_and_direction(Some("CoolWarm"), colormap.v.min,
                                                  colormap.v.max, Some(TRUE))
    /\ cmValue.v.n = colormap.v.max * cmValue.v.d
    /\ cmColor.v = PALETTE_COOLWARM[1]

-----------------------------------------------------------------------------
(* f64 arithmetic on fractions in lowest terms, the infinities and NaN *)

RECURSIVE Gcd(_, _)
Gcd(a, b) == IF b = 0 THEN a ELSE Gcd(b, a % b)

\* the f64 n / d, d # 0, in lowest terms with a positive denominator
Frac(n, d) ==
    LET g == Gcd(Abs(n), Abs(d))
    IN  [k |-> "num", n |-> Sign(d) * (n \div g), d |-> Abs(d) \div g]

Inf(s) == [k |-> "inf", s |-> s]

FNeg(a) ==
    CASE a.k = "nan" -> NaN
      [] a.k = "inf" -> Inf(-a.s)
      [] a.k = "num" -> Frac(-a.n, a.d)

\* a + b
FAdd(a, b) ==
    IF a.k = "nan" \/ b.k = "nan" THEN NaN
    ELSE IF a.k = "inf" /\ b.k = "inf" THEN (IF a.s = b.s THEN a ELSE NaN)
    ELSE IF a.k = "inf" THEN a
    ELSE IF b.k = "inf" THEN b
    ELSE Frac(a.n * b.d + b.n * a.d, a.d * b.d)

\* a - b
FSub(a, b) == FAdd(a, FNeg(b))

\* the sign of a number or an infinity
FSign(a) == IF a.k = "inf" THEN a.s ELSE Sign(a.n)

\* a * b
FMul(a, b) ==
    IF a.k = "nan" \/ b.k = "nan" THEN NaN
    ELSE IF a.k = "inf" \/ b.k = "inf"
    THEN (IF FSign(a) * FSign(b) = 0 THEN NaN ELSE Inf(FSign(a) * FSign(b)))
    ELSE Frac(a.n * b.n, a.d * b.d)

\* a / b; the zeros of the model are positive
FQuot(a, b) ==
    IF a.k = "nan" \/ b.k = "nan" THEN NaN
    ELSE IF a.k = "inf" /\ b.k = "inf" THEN NaN
    ELSE IF a.k = "inf" THEN Inf(IF FSign(b) < 0 THEN -a.s ELSE a.s)
    ELSE IF b.k = "inf" THEN Frac(0, 1)
    ELSE IF b.n = 0 THEN (IF a.n = 0 THEN NaN ELSE Inf(Sign(a.n)))
    ELSE Frac(a.n * b.d, a.d * b.n)

\* a < b: false when either is NaN
FLt(a, b) ==
    IF a.k = "nan" \/ b.k = "nan" THEN FALSE
    ELSE IF a.k = "inf" THEN a.s < 0 /\ b # a
    ELSE IF b.k = "inf" THEN b.s > 0
    ELSE IF a.n \div a.d # b.n \div b.d
    THEN a.n \div a.d < b.n \div b.d         \* the whole parts decide
    ELSE (a.n % a.d) * b.d < (b.n % b.d) * a.d

\* a <= b: false when either is NaN
FLe(a, b) == a.k # "nan" /\ b.k # "nan" /\ (a = b \/ FLt(a, b))

\* f64::min and f64::max: a NaN operand is ignored
FMin(a, b) ==
    IF a.k = "nan" THEN b ELSE IF b.k = "nan" THEN a ELSE IF FLt(b, a) THEN b ELSE a

FMax(a, b) ==
    IF a.k = "nan" THEN b ELSE IF b.k = "nan" THEN a ELSE IF FLt(a, b) THEN b ELSE a

-----------------------------------------------------------------------------
(* Projection and normalisation of the regions:                            *)
(* house-dashboard-geographical-heatmap/src/chart.rs                       *)

\* project: x and y are fractions; the z components of the axes and of the
\* result are counted in units of 1 / sqrt(2)
project(point, big_x, big_y, big_z, origin) ==
    [c \in 1..3 |->
        FAdd(FAdd(FAdd(FMul(big_x[c], point[1]), FMul(big_y[c], point[2])),
                  FMul(big_z[c], point[3])),
             origin[c])]

\* project_with_two_to_one_isometry with the x axis pointing left
project_with_mirrored_isometry(x, y, z) ==
    LET size == Frac(1, 2)
        origin == <<Frac(0, 1), Frac(0, 1), Frac(0, 1)>>
        big_x == <<FMul(size, Frac(-1, 1)), FMul(size, Frac(1, 2)), FMul(size, Frac(-1, 2))>>
        big_y == <<FMul(size, Frac(-1, 1)), FMul(size, Frac(1, 2)), FMul(size, Frac(-1, 2))>>
        big_z == <<FMul(size, Frac(0, 1)), FMul(size, Frac(1, 1)), FMul(size, Frac(-1, 2))>>
    IN  project(<<x, y, z>>, big_x, big_y, big_z, origin)

\* project_with_two_to_one_isometry; -1 / (2 * sqrt(2)) is -1/2 in units of
\* 1 / sqrt(2)
project_with_two_to_one_isometry(x, y, z) ==
    LET size == Frac(1, 2)
        origin == <<Frac(0, 1), Frac(0, 1), Frac(0, 1)>>
        big_x == <<FMul(size, Frac(1, 1)), FMul(size, Frac(1, 2)), FMul(size, Frac(-1, 2))>>
        big_y == <<FMul(size, Frac(-1, 1)), FMul(size, Frac(1, 2)), FMul(size, Frac(-1, 2))>>
        big_z == <<FMul(size, Frac(0, 1)), FMul(size, Frac(1, 1)), FMul(size, Frac(-1, 2))>>
    IN  project(<<x, y, z>>, big_x, big_y, big_z, origin)

\* project_regions_to_isometric
project_regions_to_isometric(rs) ==
    [name \in DOMAIN rs |->
        [i \in 1..Len(rs[name]) |->
            LET new == project_with_two_to_one_isometry(rs[name][i][1], rs[name][i][2],
                                                        Frac(0, 1))
            IN  <<new[1], new[2]>>]]

\* project_regions
project_regions(rs) == rs

\* the loop of bounds_of on f64 values
RECURSIVE BoundsScanF64(_, _, _, _)
BoundsScanF64(es, i, min, max) ==
    IF i > Len(es)
    THEN <<min, max>>
    ELSE BoundsScanF64(es, i + 1,
                       IF FLt(es[i], min) THEN es[i] ELSE min,
                       IF FLt(max, es[i]) THEN es[i] ELSE max)

\* bounds_of::<f64>
bounds_of_f64(es) == BoundsScanF64(es, 1, Frac(F64_MAX, 1), Frac(F64_MIN, 1))

\* the loop of compute_all_regions_bounds over the regions named in names,
\* from the running <<min_x, max_x, min_y, max_y>>
RECURSIVE AllRegionsBoundsScan(_, _, _)
AllRegionsBoundsScan(rs, names, acc) ==
    IF names = {}
    THEN acc
    ELSE LET name == CHOOSE n \in names : TRUE
             local_x == bounds_of_f64(Column(rs[name], 1))
             local_y == bounds_of_f64(Column(rs[name], 2))
         IN  AllRegionsBoundsScan(rs, names \ {name},
                <<FMin(acc[1], local_x[1]), FMax(acc[2], local_x[2]),
                  FMin(acc[3], local_y[1]), FMax(acc[4], local_y[2])>>)

\* compute_all_regions_bounds: <<min_x, max_x, min_y, max_y>>
compute_all_regions_bounds(rs) ==
    AllRegionsBoundsScan(rs, DOMAIN rs,
        <<Frac(F64_MAX, 1), Frac(F64_MIN, 1), Frac(F64_MAX, 1), Frac(F64_MIN, 1)>>)

\* ratio of normalize_regions with a scale of its own for each axis
NormalizeRatioPerAxis(rs, size, tb, lr) ==
    LET bounds == compute_all_regions_bounds(rs)
        effective_width == FSub(FSub(size[1], lr[1]), lr[2])
        dx == FSub(bounds[2], bounds[1])
    IN  FQuot(effective_width, dx)

\* ratio of normalize_regions
NormalizeRatio(rs, size, tb, lr) ==
    LET bounds == compute_all_regions_bounds(rs)
        effective_width == FSub(FSub(size[1], lr[1]), lr[2])
        effective_height == FSub(FSub(size[2], tb[1]), tb[2])
        dx == FSub(bounds[2], bounds[1])
        dy == FSub(bounds[4], bounds[3])
        ratio_x == FQuot(effective_width, dx)
        ratio_y == FQuot(effective_height, dy)
    IN  FMin(ratio_x, ratio_y)

\* left_margin + slack_x / 2.0 without the slack
NormalizeOffsetNoSlack(margin, slack) == margin

\* left_margin + slack_x / 2.0, and the same for top_margin and slack_y
NormalizeOffset(margin, slack) == FAdd(margin, FQuot(slack, Frac(2, 1)))

\* normalize_regions(regions, (width, height), (top_margin, bottom_margin),
\* (left_margin, right_margin))
normalize_regions(rs, size, tb, lr) ==
    LET bounds == compute_all_regions_bounds(rs)
        min_x == bounds[1]
        min_y == bounds[3]
        effective_width == FSub(FSub(size[1], lr[1]), lr[2])
        effective_height == FSub(FSub(size[2], tb[1]), tb[2])
        dx == FSub(bounds[2], bounds[1])
        dy == FSub(bounds[4], bounds[3])
        ratio == NormalizeRatio(rs, size, tb, lr)
        slack_x == FSub(effective_width, FMul(dx, ratio))
        slack_y == FSub(effective_height, FMul(dy, ratio))
    IN  [name \in DOMAIN rs |->
            [i \in 1..Len(rs[name]) |->
                <<FAdd(NormalizeOffset(lr[1], slack_x),
                       FMul(FSub(rs[name][i][1], min_x), ratio)),
                  FAdd(NormalizeOffset(tb[1], slack_y),
                       FMul(FSub(rs[name][i][2], min_y), ratio))>>]]

\* a path of the configuration: points with whole coordinates as f64
ToF64Path(path) == [i \in 1..Len(path) |-> <<Frac(path[i][1], 1), Frac(path[i][2], 1)>>]

\* the paths of a region: a point, or two points, which span any bounding box
RegionPaths2 == [1..1 -> Points] \cup [1..2 -> Points]

\* two regions whose union bounding box is 200 x 100
WideRegions ==
    [name \in {"a", "b"} |->
        IF name = "a"
        THEN ToF64Path(<< <<0, 0>>, <<100, 100>> >>)
        ELSE ToF64Path(<< <<100, 0>>, <<200, 50>> >>)]

\* the one point of a second region: a corner, and one point off each axis
SecondRegionPoints == {<<0, 0>>, <<GridMax, 1>>, <<1, GridMax>>}

\* the regions of a chart: one region, or two of which the second is a point
RegionSets ==
    {WideRegions}
    \cup {[name \in {"a"} |-> ToF64Path(p)] : p \in RegionPaths2}
    \cup {[name \in {"a", "b"} |-> IF name = "a" THEN ToF64Path(p) ELSE ToF64Path(q)] :
            p \in RegionPaths2, q \in [1..1 -> SecondRegionPoints]}

\* a drawing area and its margins: (width, height), (top, bottom), (left, right)
Canvas(size, tb, lr) ==
    [size |-> <<Frac(size[1], 1), Frac(size[2], 1)>>,
     tb |-> <<Frac(tb[1], 1), Frac(tb[2], 1)>>,
     lr |-> <<Frac(lr[1], 1), Frac(lr[2], 1)>>]

Canvases ==
    { Canvas(<<400, 400>>, <<0, 0>>, <<0, 0>>),
      Canvas(<<8, 4>>, <<0, 0>>, <<0, 0>>),
      Canvas(<<6, 9>>, <<1, 0>>, <<1, 2>>) }

InitNormalize ==
    /\ AuxIdle
    /\ CmIdle
    /\ GeoIdle
    /\ BarIdle
    /\ MainIdle
    /\ regions \in RegionSets
    /\ isometric \in BOOLEAN
    /\ canvas \in Canvases
    /\ normalized = None

\* the regions draw_geographical_heatmap normalises
ProjectedRegions ==
    IF isometric THEN project_regions_to_isometric(regions) ELSE project_regions(regions)

\* draw_geographical_heatmap projects the regions and normalises them
NormalizeRegions ==
    /\ normalized = None
    /\ canvas # None
    /\ normalized' = Some(normalize_regions(ProjectedRegions, canvas.size, canvas.tb, canvas.lr))
    /\ UNCHANGED <<regions, isometric, canvas, cmVars, geoVars, barVars, mainVars, auxVars>>

NextNormalize == NormalizeRegions

SpecNormalize == InitNormalize /\ [][NextNormalize]_vars

-----------------------------------------------------------------------------
(* Claims on the normalisation *)

\* the points of the regions: <<name, index>>
PointIds == UNION {{<<name, i>> : i \in 1..Len(regions[name])} : name \in DOMAIN regions}

\* the point id of the regions rs
PointOf(rs, id) == rs[id[1]][id[2]]

\* the smallest and the largest of a set of f64 values
LeastOf(S) == CHOOSE v \in S : \A w \in S : v = w \/ FLe(v, w)

GreatestOf(S) == CHOOSE v \in S : \A w \in S : v = w \/ FLe(w, v)

\* the span on axis c of the one bounding box of all points of rs
Span(rs, c) ==
    LET values == {PointOf(rs, id)[c] : id \in PointIds}
    IN  FSub(GreatestOf(values), LeastOf(values))

\* the right and the bottom margin line
RightLine == FSub(canvas.size[1], canvas.lr[2])

BottomLine == FSub(canvas.size[2], canvas.tb[2])

\* min(effective_width / dx, effective_height / dy) for the regions rs
ClaimedRatio(rs) ==
    FMin(FQuot(FSub(RightLine, canvas.lr[1]), Span(rs, 1)),
         FQuot(FSub(BottomLine, canvas.tb[1]), Span(rs, 2)))

\* C13: every point normalize_regions returns lies between the margin lines.
C13_PointsInsideDrawableArea ==
    normalized # None =>
        \A id \in PointIds :
            /\ FLe(canvas.lr[1], PointOf(normalized.v, id)[1])
            /\ FLe(PointOf(normalized.v, id)[1], RightLine)
            /\ FLe(canvas.tb[1], PointOf(normalized.v, id)[2])
            /\ FLe(PointOf(normalized.v, id)[2], BottomLine)

GapLeft == FSub(LeastOf({PointOf(normalized.v, id)[1] : id \in PointIds}), canvas.lr[1])

GapRight == FSub(RightLine, GreatestOf({PointOf(normalized.v, id)[1] : id \in PointIds}))

GapTop == FSub(LeastOf({PointOf(normalized.v, id)[2] : id \in PointIds}), canvas.tb[1])

GapBottom == FSub(BottomLine, GreatestOf({PointOf(normalized.v, id)[2] : id \in PointIds}))

\* the 200 x 100 regions on the 400 x 400 canvas without margins, unprojected
WideCase ==
    /\ normalized # None
    /\ regions = WideRegions
    /\ ~isometric
    /\ canvas = Canvas(<<400, 400>>, <<0, 0>>, <<0, 0>>)

C20_IsometryPreservesOrderOfX ==
    (normalized # None /\ isometric) =>
        LET ratio == NormalizeRatio(ProjectedRegions, canvas.size, canvas.tb, canvas.lr)
        IN  \A id1, id2 \in PointIds :
                (/\ PointOf(regions, id1)[2] = PointOf(regions, id2)[2]
                 /\ FLt(PointOf(regions, id1)[1], PointOf(regions, id2)[1]))
                => /\ FLe(PointOf(normalized.v, id1)[1], PointOf(normalized.v, id2)[1])
                   /\ FLt(Frac(0, 1), ratio)
                        => FLt(PointOf(normalized.v, id1)[1], PointOf(normalized.v, id2)[1])

\* C20 witness: two points of different regions with the same y and
\* different x were projected and normalised with a positive ratio.
C20_Witness ==
    /\ normalized # None
    /\ isometric
    /\ FLt(Frac(0, 1), NormalizeRatio(ProjectedRegions, canvas.size, canvas.tb, canvas.lr))
    /\ \E id1, id2 \in PointIds :
        /\ id1[1] # id2[1]
        /\ PointOf(regions, id1)[2] = PointOf(regions, id2)[2]
        /\ FLt(PointOf(regions, id1)[1], PointOf(regions, id2)[1])
        /\ FLt(PointOf(normalized.v, id1)[1], PointOf(normalized.v, id2)[1])

-----------------------------------------------------------------------------
(* Claims on the geometry functions, continued *)

RECURSIVE SumOf(_)
SumOf(s) == IF s = <<>> THEN 0 ELSE s[1] + SumOf(Tail(s))

\* the terms (v_i + v_{i+1}) * c_i of coordinate c over the closed ring, with
\* c_i the cross term of vertices i and i + 1 that area_of sums
CentroidTerms(es, c) ==
    [i \in 1..Len(es) |-> (es[i][c] + es[Next1(es, i)][c]) * PairTerm(es, i)]

\* the quotient n / d evaluated in the coordinate type
QuotientIn(T, n, d) == IF T = "i32" THEN Num(TruncDiv(n, d)) ELSE Frac(n * Sign(d), Abs(d))

\* v is a finite number of the same value as w
SameNumber(v, w) == v.k = "num" /\ w.k = "num" /\ v.n * w.d = w.n * v.d

TestSquare == << <<0, 0>>, <<0, 2>>, <<2, 2>>, <<2, 0>> >>

TestTriangle == << <<0, 0>>, <<1, 1>>, <<2, 0>> >>

\* C16: for every polygon whose area_of is not zero, centroid_of returns
\* the sums of (x_i + x_{i+1}) * c_i and of (y_i + y_{i+1}) * c_i divided by
\* 6 * A, with A the value of area_of and the division made in the coordinate
\* type; it returns (1, 1) for the square (0,0),(0,2),(2,2),(2,0) and
\* (1, 1/3) for the triangle (0,0),(1,1),(2,0), which is (1, 0) in i32.
C16_CentroidIsWeightedSumOverSixAreas ==
    (/\ geoCall = Some("centroid_of")
     /\ elements # <<>>
     /\ area_of(numType, elements).n # 0)
        => LET A == area_of(numType, elements)
               sx == SumOf(CentroidTerms(elements, 1))
               sy == SumOf(CentroidTerms(elements, 2))
               c == geoResult.v
           IN  /\ c.k = "point"
               /\ SameNumber(c.x, QuotientIn(numType, sx * A.d, 6 * A.n))
               /\ SameNumber(c.y, QuotientIn(numType, sy * A.d, 6 * A.n))
               /\ elements = TestSquare =>
                    SameNumber(c.x, Num(1)) /\ SameNumber(c.y, Num(1))
               /\ elements = TestTriangle =>
                    /\ SameNumber(c.x, Num(1))
                    /\ SameNumber(c.y, IF numType = "i32" THEN Num(0) ELSE Frac(1, 3))

\* C16 witness: centroid_of has returned (1, 1/3) for the f64 triangle of the
\* test centroid_of_triangle.
C16_Witness ==
    /\ geoCall = Some("centroid_of")
    /\ numType = "f64"
    /\ elements = TestTriangle
    /\ geoResult.v.k = "point"
    /\ SameNumber(geoResult.v.x, Num(1))
    /\ SameNumber(geoResult.v.y, Frac(1, 3))

\* the integer points of the smallest square of the plane that holds es
LatticeAround(es) ==
    LET cs == {es[i][c] : i \in 1..Len(es), c \in 1..2}
        lo == CHOOSE v \in cs : \A w \in cs : v <= w
        hi == CHOOSE v \in cs : \A w \in cs : w <= v
    IN  (lo..hi) \X (lo..hi)

\* p lies on an edge of the closed ring es
OnBoundary(es, p) == \E i \in 1..Len(es) : OnSegment(es[i], es[Next1(es, i)], p)

\* the edges of es that the horizontal ray from p towards larger x crosses
RayCrossings(es, p) ==
    {i \in 1..Len(es) :
        LET a == es[i]
            b == es[Next1(es, i)]
        IN  /\ (a[2] > p[2]) # (b[2] > p[2])
            /\ Sign(b[2] - a[2]) * Cross(a, b, p) > 0}

\* p lies strictly inside the simple polygon es
Inside(es, p) == ~OnBoundary(es, p) /\ Cardinality(RayCrossings(es, p)) % 2 = 1

\* twice the area that a simple polygon with integer vertices encloses, by
\* counting integer points: 2 * inner points + boundary points - 2
DoubledEnclosedArea(es) ==
    LET ps == LatticeAround(es)
    IN  2 * Cardinality({p \in ps : Inside(es, p)})
            + Cardinality({p \in ps : OnBoundary(es, p)}) - 2

UnitSquare == << <<0, 0>>, <<0, 1>>, <<1, 1>>, <<1, 0>> >>

LShape == << <<0, 0>>, <<0, 2>>, <<1, 2>>, <<1, 1>>, <<2, 1>>, <<2, 0>> >>

\* C17: for every simple polygon with integer vertices whose doubled
\* enclosed area is even, the absolute value of area_of is the enclosed
\* area; area_of is 1 for the unit square (0,0),(0,1),(1,1),(1,0), 1 for the
\* triangle (0,0),(1,1),(2,0) and 3 for the L-shaped hexagon.
C17_AbsoluteAreaIsEnclosedArea ==
    (geoCall = Some("area_of") /\ IsSimple(elements)) =>
        LET a == geoResult.v
            doubled == DoubledEnclosedArea(elements)
        IN  /\ doubled % 2 = 0 => a.k = "num" /\ 2 * Abs(a.n) = doubled * a.d
            /\ elements = UnitSquare => SameNumber(a, Num(1))
            /\ elements = TestTriangle => SameNumber(a, Num(1))
            /\ elements = LShape => SameNumber(a, Num(3))

\* C17 witness: area_of has returned 3 for the L-shaped hexagon, which
\* encloses three unit squares (doubled area 6).
C17_Witness ==
    /\ geoCall = Some("area_of")
    /\ elements = LShape
    /\ IsSimple(elements)
    /\ DoubledEnclosedArea(elements) = 6
    /\ SameNumber(geoResult.v, Num(3))

\* the values of a sequence
Range(s) == {s[i] : i \in 1..Len(s)}

\* (m, M) are the smallest and the largest element of the sequence es
IsLeastAndGreatest(es, b) ==
    /\ b[1] \in Range(es)
    /\ b[2] \in Range(es)
    /\ \A e \in Range(es) : b[1] <= e /\ e <= b[2]
    /\ Len(es) = 1 => b[1] = b[2]

\* C18: for every non-empty sequence bounds_of returns (m, M) with m the
\* smallest and M the largest element of the sequence, both elements of it;
\* for a one-element sequence m = M; and
\* bounds_of([1,4,2,5,7,2,6,-2,6,-1]) = (-2, 7).
C18_BoundsAreLeastAndGreatest ==
    (geoCall = Some("bounds_of") /\ elements # <<>>) =>
        /\ IsLeastAndGreatest(Column(elements, 1), geoResult.v.x)
        /\ IsLeastAndGreatest(Column(elements, 2), geoResult.v.y)
        /\ Column(elements, 1) = BoundsTestList => geoResult.v.x = <<-2, 7>>

\* C18 witness: bounds_of has returned (-2, 7) for the list of the test
\* bounds_of_list.
C18_Witness ==
    /\ geoCall = Some("bounds_of")
    /\ Column(elements, 1) = BoundsTestList
    /\ geoResult.v.x = <<-2, 7>>

\* every three points of es lie on one line, which holds for one point, for
\* two points and for coinciding points
Collinear(es) == \A i, j, k \in 1..Len(es) : Cross(es[i], es[j], es[k]) = 0

\* C19: area_of returns 0 for every degenerate polygon: a single point, two
\* points, or any number of collinear points.
C19_DegenerateAreaIsZero ==
    (geoCall = Some("area_of") /\ elements # <<>> /\ Collinear(elements))
        => geoResult.v.k = "num" /\ geoResult.v.n = 0

\* C19 witness: area_of has returned 0 for three different points of a line
\* that does not pass through the origin.
C19_Witness ==
    /\ geoCall = Some("area_of")
    /\ Len(elements) = 3
    /\ Cardinality(Range(elements)) = 3
    /\ Collinear(elements)
    /\ Cross(<<0, 0>>, elements[1], elements[2]) # 0
    /\ geoResult.v.k = "num"
    /\ geoResult.v.n = 0

-----------------------------------------------------------------------------
(* Claims on the labels of the colorbar *)

\* the draw_text calls of the finished drawing
DrawnLabels == {k \in 1..Len(drawn) : drawn[k].op = "draw_text"}

\* bounds.min + (N - i - 1) * (bounds.max - bounds.min) / (N - 1)
ClaimedBandValue(i) ==
    FAdd(Frac(bar.v.bounds[1], 1),
         FQuot(FMul(Frac(BarSteps - i - 1, 1), Frac(bar.v.bounds[2] - bar.v.bounds[1], 1)),
               Frac(BarSteps - 1, 1)))

\* C21: the colorbar emits a text label for band i exactly when i is a
\* multiple of N / label_count = 61 / 4 = 15; the label shows the value
\* bounds.min + (N - i - 1) * (bounds.max - bounds.min) / (N - 1) of its band
\* with the configured precision, and the label of the top band shows
\* bounds.max.
C21_LabelsOnEveryFifteenthBand ==
    (barDone /\ bar.v.kind = "Colorbar") =>
        /\ {drawn[k].i : k \in DrawnLabels} = {i \in 0..(BarSteps - 1) : i % (BarSteps \div 4) = 0}
        /\ \A k, l \in DrawnLabels : drawn[k].i = drawn[l].i => k = l
        /\ \A k \in DrawnLabels :
            /\ SameNumber(drawn[k].value, ClaimedBandValue(drawn[k].i))
            /\ drawn[k].text
                = <<FormatFixed(ClaimedBandValue(drawn[k].i), bar.v.precision), bar.v.unit>>
            /\ \A l \in DrawnLabels : drawn[k].i < drawn[l].i
                    => drawn[k].position[2] < drawn[l].position[2]
            /\ drawn[k].i = 0 =>
                    drawn[k].text = <<FormatFixed(Frac(bar.v.bounds[2], 1), bar.v.precision), bar.v.unit>>

\* C21 witness: a colorbar over bounds min < max was drawn with five labels,
\* the one of band 0 showing max and the one of band 60 showing min.
C21_Witness ==
    /\ barDone
    /\ bar.v.kind = "Colorbar"
    /\ bar.v.bounds[1] < bar.v.bounds[2]
    /\ Cardinality(DrawnLabels) = 5
    /\ \E k, l \in DrawnLabels :
        /\ drawn[k].i = 0
        /\ SameNumber(drawn[k].value, Frac(bar.v.bounds[2], 1))
        /\ drawn[l].i = BarSteps - 1
        /\ SameNumber(drawn[l].value, Frac(bar.v.bounds[1], 1))

-----------------------------------------------------------------------------
(* ISO 8601 durations: house-dashboard-common/src/duration.rs *)

\* the characters \d matches in the strings of the model
DigitChars == <<"0", "1", "2", "3", "4", "5", "6", "7", "8", "9">>

IsDigit(c) == \E k \in 1..10 : DigitChars[k] = c

DigitValue(c) == (CHOOSE k \in 1..10 : DigitChars[k] = c) - 1

\* str::parse::<i64> of a string of digits
RECURSIVE ParseI64(_)
ParseI64(ds) ==
    IF ds = <<>> THEN 0
    ELSE 10 * ParseI64(SubSeq(ds, 1, Len(ds) - 1)) + DigitValue(ds[Len(ds)])

\* the index after the longest run of digits of s that starts at i
RECURSIVE DigitsEnd(_, _)
DigitsEnd(s, i) == IF i <= Len(s) /\ IsDigit(s[i]) THEN DigitsEnd(s, i + 1) ELSE i

NoCaptures ==
    [years |-> None, months |-> None, days |-> None,
     hours |-> None, minutes |-> None, seconds |-> None]

DateGroups == << <<"Y", "years">>, <<"M", "months">>, <<"D", "days">> >>

TimeGroups == << <<"H", "hours">>, <<"M", "minutes">>, <<"S", "seconds">> >>

\* the optional groups ((?P<name>\d+)L)? of `groups` from the g-th on,
\* matched at s[i..]: the index after them and the captures
RECURSIVE MatchGroups(_, _, _, _, _)
MatchGroups(s, i, groups, g, caps) ==
    IF g > Len(groups)
    THEN [end |-> i, caps |-> caps]
    ELSE LET e == DigitsEnd(s, i)
         IN  IF e > i /\ e <= Len(s) /\ s[e] = groups[g][1]
             THEN MatchGroups(s, e + 1, groups, g + 1,
                              [caps EXCEPT ![groups[g][2]] = Some(SubSeq(s, i, e - 1))])
             ELSE MatchGroups(s, i, groups, g + 1, caps)

\* duration_regex.captures(string): ^P, the date groups, an optional T with
\* the time groups, $
Captures(s) ==
    IF s = <<>> \/ s[1] # "P"
    THEN None
    ELSE LET date == MatchGroups(s, 2, DateGroups, 1, NoCaptures)
             time == IF date.end <= Len(s) /\ s[date.end] = "T"
                     THEN MatchGroups(s, date.end + 1, TimeGroups, 1, date.caps)
                     ELSE date
         IN  IF time.end = Len(s) + 1 THEN Some(time.caps) ELSE None

\* Duration::days, ::hours, ::minutes, ::seconds, in seconds
DurationDays(n) == 86400 * n

DurationHours(n) == 3600 * n

DurationMinutes(n) == 60 * n

DurationSeconds(n) == n

\* Duration::days(31 * months)
MonthsDurationOf31(months) == DurationDays(31 * months)

\* Duration::days(30 * months)
MonthsDuration(months) == DurationDays(30 * months)

\* what a captured group adds to the duration, 0 when the group is absent
Added(capture, duration_of(_)) ==
    IF capture = None THEN 0 ELSE duration_of(ParseI64(capture.v))

YearsDuration(years) == DurationDays(365 * years)

\* parse_iso8601_duration: None, or Some(whole seconds of the Duration)
parse_iso8601_duration(string) ==
    LET captures == Captures(string)
    IN  IF captures = None
        THEN None
        ELSE Some(Added(captures.v.years, YearsDuration)
                  + Added(captures.v.months, MonthsDuration)
                  + Added(captures.v.days, DurationDays)
                  + Added(captures.v.hours, DurationHours)
                  + Added(captures.v.minutes, DurationMinutes)
                  + Added(captures.v.seconds, DurationSeconds))

\* largest number written in a component of the strings of the model
MaxComponent == 14

ComponentNumbers == {0, 1, MaxComponent}

\* the decimal digits of n
RECURSIVE ToDigits(_)
ToDigits(n) ==
    IF n < 10 THEN <<DigitChars[n + 1]>> ELSE ToDigits(n \div 10) \o <<DigitChars[(n % 10) + 1]>>

Written(component, letter) ==
    IF component = None THEN <<>> ELSE ToDigits(component.v) \o <<letter>>

\* the components a duration string is written from: each number present
\* or absent, and whether the T is written
DurationForms ==
    {f \in [years : {None} \cup {Some(n) : n \in ComponentNumbers},
            months : {None} \cup {Some(n) : n \in ComponentNumbers},
            days : {None} \cup {Some(n) : n \in ComponentNumbers},
            t : BOOLEAN,
            hours : {None} \cup {Some(n) : n \in ComponentNumbers},
            minutes : {None} \cup {Some(n) : n \in ComponentNumbers},
            seconds : {None} \cup {Some(n) : n \in ComponentNumbers}] :
        (f.hours # None \/ f.minutes # None \/ f.seconds # None) => f.t}

\* the string P[nY][nM][nD][T[nH][nM][nS]] of a form
StringOf(f) ==
    <<"P">> \o Written(f.years, "Y") \o Written(f.months, "M") \o Written(f.days, "D")
        \o (IF f.t
            THEN <<"T">> \o Written(f.hours, "H") \o Written(f.minutes, "M")
                    \o Written(f.seconds, "S")
            ELSE <<>>)

Form(y, mo, d, t, h, mi, sec) ==
    [years |-> y, months |-> mo, days |-> d, t |-> t,
     hours |-> h, minutes |-> mi, seconds |-> sec]

\* the strings of the tests of duration.rs
TestForms ==
    { Form(Some(1), None, None, FALSE, None, None, None),
      Form(Some(1), Some(4), None, FALSE, None, None, None),
      Form(Some(1), None, Some(8), FALSE, None, None, None),
      Form(Some(1), None, Some(8), TRUE, Some(3), None, None),
      Form(Some(1), None, Some(8), TRUE, Some(3), Some(28), None),
      Form(Some(1), None, Some(8), TRUE, None, None, Some(14)),
      Form(None, None, None, TRUE, Some(7), None, Some(14)) }

\* strings that are not durations
OtherStrings ==
    { <<>>, <<"1", "Y">>, <<"P", "Y">>, <<"P", "1">>, <<"P", "1", "S">>,
      <<"P", "T", "1", "Y">>, <<"P", "1", "D", "2", "Y">>, <<"P", "1", "Y", " ">>,
      <<"p", "1", "Y">>, <<"P", "T", "1", "M", "2", "H">> }

InitDuration ==
    /\ KernelIdle
    /\ TrendIdle
    /\ FbIdle
    /\ InfluxIdle
    /\ PeriodIdle
    /\ \/ \E f \in DurationForms \cup TestForms :
            durForm = Some(f) /\ durString = StringOf(f)
       \/ \E s \in OtherStrings :
            durForm = None /\ durString = s
    /\ durResult = None

\* Iso8601Duration::deserialize calls parse_iso8601_duration on the string
ParseIso8601Duration ==
    /\ durResult = None
    /\ durResult' = Some(parse_iso8601_duration(durString))
    /\ UNCHANGED <<durString, durForm, kernelVars, fbVars, influxVars, periodVars,
                   trendVars>>

NextDuration == ParseIso8601Duration

SpecDuration == InitDuration /\ [][NextDuration]_vars

Component(c) == IF c = None THEN 0 ELSE c.v

\* C22: for every string of the form P[nY][nM][nD][T[nH][nM][nS]]
\* parse_iso8601_duration returns the duration of 365 * Y + 30 * M + D days
\* plus H hours, M minutes and S seconds, an absent component counting as 0;
\* P1Y4M is 485 days, P1Y8DT3H 8955 hours, P1Y8DT3H28M 537328 minutes,
\* P1Y8DT14S 32227214 seconds and PT7H14S 25214 seconds.
C22_DurationIsSumOfComponents ==
    (durResult # None /\ durForm # None) =>
        LET f == durForm.v
        IN  /\ durResult.v
                = Some((365 * Component(f.years) + 30 * Component(f.months)
                            + Component(f.days)) * 86400
                       + Component(f.hours) * 3600 + Component(f.minutes) * 60
                       + Component(f.seconds))
            /\ durString = <<"P", "1", "Y", "4", "M">> => durResult.v = Some(485 * 86400)
            /\ durString = <<"P", "1", "Y", "8", "D", "T", "3", "H">>
                    => durResult.v = Some(8955 * 3600)
            /\ durString = <<"P", "1", "Y", "8", "D", "T", "3", "H", "2", "8", "M">>
                    => durResult.v = Some(537328 * 60)
            /\ durString = <<"P", "1", "Y", "8", "D", "T", "1", "4", "S">>
                    => durResult.v = Some(32227214)
            /\ durString = <<"P", "T", "7", "H", "1", "4", "S">> => durResult.v = Some(25214)

\* C22 witness: P1Y8DT3H28M was parsed to 537328 minutes, the M after the T
\* read as minutes.
C22_Witness ==
    /\ durString = <<"P", "1", "Y", "8", "D", "T", "3", "H", "2", "8", "M">>
    /\ durForm # None
    /\ durForm.v.months = None
    /\ durForm.v.minutes = Some(28)
    /\ durResult = Some(Some(537328 * 60))

-----------------------------------------------------------------------------
(* Framebuffer pixels: src/framebuffer.rs *)

\* pixel_to_pixel; original, length and offset are (red, green, blue)
pixel_to_pixel(original, length, offset) ==
    LET red == (original[1] * 2^length[1]) \div 256
        green == (original[2] * 2^length[2]) \div 256
        blue == (original[3] * 2^length[3]) \div 256
    IN  red * 2^offset[1] + green * 2^offset[2] + blue * 2^offset[3]

\* longest channel field of the pixel layouts of the model: three fields
\* of 10 bits are the longest equal ones that fit the u32 returned
MaxLength == 10

\* the layouts var_screen_info reports: lengths and offsets of red, green
\* and blue.  RGB565 and RGB888 are those of the tests; the last one has
\* overlapping fields
PixelLayouts ==
    { [length |-> <<5, 6, 5>>, offset |-> <<11, 5, 0>>],
      [length |-> <<8, 8, 8>>, offset |-> <<16, 8, 0>>],
      [length |-> <<8, 8, 8>>, offset |-> <<0, 8, 16>>],
      [length |-> <<5, 5, 5>>, offset |-> <<10, 5, 0>>],
      [length |-> <<4, 4, 4>>, offset |-> <<8, 4, 0>>],
      [length |-> <<MaxLength, MaxLength, MaxLength>>,
       offset |-> <<2 * MaxLength, MaxLength, 0>>],
      [length |-> <<8, 8, 8>>, offset |-> <<8, 4, 0>>] }

\* the u8 channel values of the model
ChannelValues == {0, 1, 127, 128, 254, 255}

InitFramebuffer ==
    /\ KernelIdle
    /\ TrendIdle
    /\ DurIdle
    /\ InfluxIdle
    /\ PeriodIdle
    /\ \E layout \in PixelLayouts, red, green, blue \in ChannelValues :
        fbPixel = Some([original |-> <<red, green, blue>>,
                        length |-> layout.length, offset |-> layout.offset])
    /\ fbResult = None

\* display_image converts one pixel of the image
PixelToPixel ==
    /\ fbResult = None
    /\ fbResult' = Some(pixel_to_pixel(fbPixel.v.original, fbPixel.v.length, fbPixel.v.offset))
    /\ UNCHANGED <<fbPixel, kernelVars, durVars, influxVars, periodVars,
                   trendVars>>

NextFramebuffer == PixelToPixel

SpecFramebuffer == InitFramebuffer /\ [][NextFramebuffer]_vars

\* the bits offset .. offset + length - 1 of a pixel
FieldOf(pixel, c) ==
    (pixel \div 2^fbPixel.v.offset[c]) % 2^fbPixel.v.length[c]

\* no bit belongs to the fields of two channels
FieldsDoNotOverlap ==
    \A c, e \in 1..3 :
        c # e => \/ fbPixel.v.offset[c] + fbPixel.v.length[c] <= fbPixel.v.offset[e]
                 \/ fbPixel.v.offset[e] + fbPixel.v.length[e] <= fbPixel.v.offset[c]

IsLayout(length, offset) == fbPixel.v.length = length /\ fbPixel.v.offset = offset

\* C23: pixel_to_pixel converts each channel c to floor(c * 2^length / 256)
\* at the channel's offset; when the fields do not overlap each field
\* depends on its own channel only, 0x00 gives an all-zero field and 0xff an
\* all-ones field; RGB565 white is 0xffff, red 0xf800, green 0x07e0, blue
\* 0x001f and RGB888 yellow is 0x00ffff00.
C23_FieldsAreScaledChannels ==
    (fbResult # None /\ FieldsDoNotOverlap) =>
        /\ \A c \in 1..3 :
            LET field == FieldOf(fbResult.v, c)
                original == fbPixel.v.original[c]
            IN  /\ field = (original * 2^fbPixel.v.length[c]) \div 256
                /\ original = 0 => field = 0
                /\ original = 255 => field = 2^fbPixel.v.length[c] - 1
        /\ IsLayout(<<5, 6, 5>>, <<11, 5, 0>>) =>
            /\ fbPixel.v.original = <<255, 255, 255>> => fbResult.v = 65535
            /\ fbPixel.v.original = <<255, 0, 0>> => fbResult.v = 63488
            /\ fbPixel.v.original = <<0, 255, 0>> => fbResult.v = 2016
            /\ fbPixel.v.original = <<0, 0, 255>> => fbResult.v = 31
        /\ IsLayout(<<8, 8, 8>>, <<16, 8, 0>>) =>
            (fbPixel.v.original = <<255, 255, 0>> => fbResult.v = 16776960)

-----------------------------------------------------------------------------
(* The InfluxDB client: house-dashboard-influxdb/src/lib.rs *)

\* number of chart tasks that hold a clone of the InfluxDBClient
NumTasks == 3

\* number of requests a task makes at most
MaxRequests == 2

Tasks == 1..NumTasks

InitInflux ==
    /\ KernelIdle
    /\ TrendIdle
    /\ DurIdle
    /\ FbIdle
    /\ PeriodIdle
    /\ requestPc = [t \in Tasks |-> "idle"]
    /\ requests = [t \in Tasks |-> 0]
    /\ httpMutex = None

\* a fetch_* method calls request, which builds the body and the Request
RequestBuild(t) ==
    /\ requestPc[t] = "idle"
    /\ requests[t] < MaxRequests
    /\ requests' = [requests EXCEPT ![t] = @ + 1]
    /\ requestPc' = [requestPc EXCEPT ![t] = "locking"]
    /\ UNCHANGED <<httpMutex, kernelVars, durVars, fbVars, periodVars,
                   trendVars>>

\* to_form_urlencoded, join or body fails: request returns the error
RequestBuildErr(t) ==
    /\ requestPc[t] = "idle"
    /\ requests[t] < MaxRequests
    /\ requests' = [requests EXCEPT ![t] = @ + 1]
    /\ UNCHANGED <<requestPc, httpMutex, kernelVars, durVars, fbVars, periodVars,
                   trendVars>>

\* self.http_client.lock().await completes although another task holds the
\* guard
HttpClientLockShared(t) ==
    /\ requestPc[t] = "locking"
    /\ httpMutex' = Some(t)
    /\ requestPc' = [requestPc EXCEPT ![t] = "sending"]
    /\ UNCHANGED <<requests, kernelVars, durVars, fbVars, periodVars,
                   trendVars>>

\* self.http_client.lock().await completes: the mutex is free and the task
\* gets the guard; the task then calls send_async
HttpClientLock(t) ==
    /\ requestPc[t] = "locking"
    /\ httpMutex = None
    /\ httpMutex' = Some(t)
    /\ requestPc' = [requestPc EXCEPT ![t] = "sending"]
    /\ UNCHANGED <<requests, kernelVars, durVars, fbVars, periodVars,
                   trendVars>>

\* send_async(request).await yields the response: read_to_end begins
SendAsyncOk(t) ==
    /\ requestPc[t] = "sending"
    /\ requestPc' = [requestPc EXCEPT ![t] = "reading"]
    /\ UNCHANGED <<requests, httpMutex, kernelVars, durVars, fbVars, periodVars,
                   trendVars>>

\* send_async or read_to_end fails: `?` returns and drops the guard
HttpErr(t) ==
    /\ requestPc[t] \in {"sending", "reading"}
    /\ requestPc' = [requestPc EXCEPT ![t] = "idle"]
    /\ httpMutex' = IF httpMutex = Some(t) THEN None ELSE httpMutex
    /\ UNCHANGED <<requests, kernelVars, durVars, fbVars, periodVars,
                   trendVars>>

\* read_to_end has read the whole body: the response is parsed
ReadToEndOk(t) ==
    /\ requestPc[t] = "reading"
    /\ requestPc' = [requestPc EXCEPT ![t] = "parsing"]
    /\ UNCHANGED <<requests, httpMutex, kernelVars, durVars, fbVars, periodVars,
                   trendVars>>

\* try_into succeeds or fails: request returns and drops the guard
RequestReturn(t) ==
    /\ requestPc[t] = "parsing"
    /\ requestPc' = [requestPc EXCEPT ![t] = "idle"]
    /\ httpMutex' = IF httpMutex = Some(t) THEN None ELSE httpMutex
    /\ UNCHANGED <<requests, kernelVars, durVars, fbVars, periodVars,
                   trendVars>>

\* main returns with an error and drops the remaining futures of `tasks`,
\* and with them every guard
TasksDropped ==
    /\ \E t \in Tasks : requestPc[t] # "dropped"
    /\ requestPc' = [t \in Tasks |-> "dropped"]
    /\ httpMutex' = None
    /\ UNCHANGED <<requests, kernelVars, durVars, fbVars, periodVars,
                   trendVars>>

NextInflux ==
    \/ \E t \in Tasks : RequestBuild(t)
    \/ \E t \in Tasks : RequestBuildErr(t)
    \/ \E t \in Tasks : HttpClientLock(t)
    \/ \E t \in Tasks : SendAsyncOk(t)
    \/ \E t \in Tasks : HttpErr(t)
    \/ \E t \in Tasks : ReadToEndOk(t)
    \/ \E t \in Tasks : RequestReturn(t)
    \/ TasksDropped

SpecInflux == InitInflux /\ [][NextInflux]_vars

\* the tasks whose HTTP request is in flight: sent, and the body of the
\* response not yet read completely
InFlight == {t \in Tasks : requestPc[t] \in {"sending", "reading"}}

\* C26: over all tasks that share the InfluxDBClient or its clones at most
\* one HTTP request is in flight at any time: a task sends its request only
\* while it holds the mutex of the client and holds it until the body of
\* the response has been read completely.
C26_OneRequestInFlight ==
    /\ Cardinality(InFlight) <= 1
    /\ \A t \in InFlight : httpMutex = Some(t)

\* C26 witness: one task is reading the body of its response while the
\* other one has built its request and waits for the mutex.
C26_Witness ==
    \E t, u \in Tasks :
        /\ requestPc[t] = "reading"
        /\ httpMutex = Some(t)
        /\ requestPc[u] = "locking"

-----------------------------------------------------------------------------
(* Claims on the attempts of Chart::process *)

\* the calls of process_inner chart c has made so far
AttemptsMade(c) ==
    failed[c] + (IF taskState[c] = "attempting" \/ returned[c] # None THEN 1 ELSE 0)

\* the attempts of a chart are made one after another (an attempt runs only
\* when all earlier ones have failed and their delays are over), there are
\* never more than 4 of them, and a returned Ok carries the index of the
\* chart and the bytes of the attempt that succeeded, the first to succeed
AttemptsInARow ==
    \A c \in DOMAIN charts :
        /\ AttemptsMade(c) <= 4
        /\ taskState[c] = "attempting" => failed[c] = attempt[c]
        /\ taskState[c] = "sleeping" => failed[c] = attempt[c] + 1
        /\ returned[c] # None =>
            /\ taskState[c] \in {"ok", "done"}
            /\ returned[c].v = [index |-> c, bytes |-> <<c, failed[c]>>]
            /\ AttemptsMade(c) = failed[c] + 1

\* once Chart::process of a chart has returned Ok, the chart makes no
\* further attempt, waits no further delay and its result does not change
NothingAfterSuccess ==
    [][\A c \in DOMAIN charts :
            returned[c] # None =>
                /\ returned'[c] = returned[c]
                /\ attempt'[c] = attempt[c]
                /\ failed'[c] = failed[c]
                /\ slept'[c] = slept[c]
                /\ taskState'[c] \in {"ok", "done"}]_vars

\* C24: Chart::process makes its attempts strictly one after another, never
\* more than MAX_ATTEMPTS = 4 in total, and on the first attempt that
\* succeeds it returns that attempt's (index, bytes) at once, with no
\* further attempt and no further delay.
C24_AttemptsInARowUntilSuccess == []AttemptsInARow /\ NothingAfterSuccess

\* C24 witness: a chart succeeded at its third attempt, after two failures
\* and delays of 8 and 16 seconds, and its result was saved.
C24_Witness ==
    \E c \in DOMAIN charts :
        /\ returned[c] = Some([index |-> c, bytes |-> <<c, 2>>])
        /\ failed[c] = 2
        /\ slept[c] = 24
        /\ c \in saved

\* C25: delays occur only between two attempts: when the fourth attempt
\* fails the error is returned without another delay, so that a chart that
\* always fails has waited 8 + 16 + 32 seconds when its error is reported.
C25_NoDelayAfterLastAttempt ==
    \A c \in DOMAIN charts :
        /\ taskState[c] = "err" => slept[c] = 8 + 16 + 32
        /\ taskState[c] = "sleeping" => failed[c] < MAX_ATTEMPTS

-----------------------------------------------------------------------------
(* Periods of the temporal heatmap:                                        *)
(* house-dashboard-temporal-heatmap/src/configuration.rs                   *)

IsLeapYear(y) == (y % 4 = 0 /\ y % 100 # 0) \/ y % 400 = 0

DaysInMonth(y, m) ==
    IF m \in {4, 6, 9, 11} THEN 30
    ELSE IF m = 2 THEN (IF IsLeapYear(y) THEN 29 ELSE 28)
    ELSE 31

\* date + Duration::days(n) on a DateTime<Local>, a record of year, month,
\* day and hour, in a time zone without changes of offset
RECURSIVE PlusDays(_, _)
PlusDays(date, n) ==
    IF date.day + n <= DaysInMonth(date.year, date.month)
    THEN [date EXCEPT !.day = @ + n]
    ELSE PlusDays([date EXCEPT
                        !.year = IF date.month = 12 THEN @ + 1 ELSE @,
                        !.month = IF date.month = 12 THEN 1 ELSE @ + 1,
                        !.day = 1],
                  n - (DaysInMonth(date.year, date.month) - date.day + 1))

\* Period::instant_to_rectangle
instant_to_rectangle(self, i) ==
    IF self = "HourOverDay"
    THEN LET hour == i.hour
             next_hour == hour + 1
             date == [i EXCEPT !.hour = 0]
             next_date == PlusDays(date, 1)
         IN  Some(<< <<date, next_date>>, <<hour, next_hour>> >>)
    ELSE LET day == i.day
             next_day == day + 1
             date == [i EXCEPT !.day = 1]
             next_date ==
                IF date.month \in {1, 3, 5, 7, 8, 19} THEN PlusDays(date, 31)
                ELSE IF date.month \in {4, 6, 9, 11} THEN PlusDays(date, 30)
                ELSE IF PlusDays(date, 28).day = 29 THEN PlusDays(date, 29)
                ELSE PlusDays(date, 28)
         IN  Some(<< <<date, next_date>>, <<day, next_day>> >>)

\* the years of the instants of the model: a common year, a leap year, and
\* the century years 1900 (common) and 2000 (leap)
Years == {1900, 2000, 2023, 2024}

Hours == {0, 12, 23}

Instants ==
    {i \in [year : Years, month : 1..12, day : 1..31, hour : Hours] :
        i.day <= DaysInMonth(i.year, i.month)}

InitPeriod ==
    /\ KernelIdle
    /\ TrendIdle
    /\ DurIdle
    /\ FbIdle
    /\ InfluxIdle
    /\ period \in {Some("HourOverDay"), Some("DayOverMonth")}
    /\ instant \in {Some(i) : i \in Instants}
    /\ rectangle = None

\* the chart maps an instant of the time-series to its rectangle
InstantToRectangle ==
    /\ rectangle = None
    /\ rectangle' = Some(instant_to_rectangle(period.v, instant.v))
    /\ UNCHANGED <<period, instant, kernelVars, durVars, fbVars, influxVars,
                   trendVars>>

NextPeriod == InstantToRectangle

SpecPeriod == InitPeriod /\ [][NextPeriod]_vars

\* day 1 of the month after that of date, at the same time of day
FirstOfFollowingMonth(date) ==
    [date EXCEPT !.year = IF date.month = 12 THEN @ + 1 ELSE @,
                 !.month = IF date.month = 12 THEN 1 ELSE @ + 1,
                 !.day = 1]

\* C27: for every instant, Period::DayOverMonth.instant_to_rectangle returns
\* an x-interval from day 1 of the instant's month to day 1 of the following
\* month, for each of the twelve months and for February of leap years and
\* of common years, and the y-interval (day, day + 1).
C27_MonthIntervalEndsOnFirstOfNextMonth ==
    (rectangle # None /\ period = Some("DayOverMonth")) =>
        /\ rectangle.v # None
        /\ rectangle.v.v[1][1] = [instant.v EXCEPT !.day = 1]
        /\ rectangle.v.v[1][2] = FirstOfFollowingMonth(instant.v)
        /\ rectangle.v.v[2] = <<instant.v.day, instant.v.day + 1>>

-----------------------------------------------------------------------------
(* Claims on the position of the labels of the regions *)

\* es is a convex polygon: simple, and never turning in two directions
IsConvex(es) ==
    /\ IsSimple(es)
    /\ \A i, j \in 1..Len(es) :
        Sign(Cross(es[Prev1(es, i)], es[i], es[Next1(es, i)]))
            * Sign(Cross(es[Prev1(es, j)], es[j], es[Next1(es, j)])) >= 0

\* C28: for every convex polygon with i32 vertices whose area_of is not
\* zero, the point centroid_of returns, where draw_region writes the value
\* of the region, lies inside the bounding box of the polygon.
C28_CentroidInsideBoundingBox ==
    (/\ geoCall = Some("centroid_of")
     /\ numType = "i32"
     /\ IsConvex(elements)
     /\ area_of(numType, elements).n # 0)
        => LET xs == bounds_of(numType, Column(elements, 1))
               ys == bounds_of(numType, Column(elements, 2))
               c == geoResult.v
           IN  /\ c.k = "point"
               /\ xs[1] <= c.x.n /\ c.x.n <= xs[2]
               /\ ys[1] <= c.y.n /\ c.y.n <= ys[2]

-----------------------------------------------------------------------------
(* The range of the trend chart: house-dashboard-trend/src/chart.rs        *)

\* f64::MAX or f64::MIN
IsSentinel(a) == a = Num(F64_MAX) \/ a = Num(F64_MIN)

\* a + b as f64 rounds it where a sentinel is an operand: the sum of two
\* equal sentinels overflows to an infinity, and a sentinel absorbs every
\* number below half its unit in the last place (about 10^292), as all
\* numbers of TrendValues and MinYRanges are
F64Add(a, b) ==
    IF a.k # "num" \/ b.k # "num" THEN FAdd(a, b)
    ELSE IF IsSentinel(a) /\ IsSentinel(b)
    THEN (IF a = b THEN Inf(Sign(a.n)) ELSE Num(0))
    ELSE IF IsSentinel(a) THEN a
    ELSE IF IsSentinel(b) THEN b
    ELSE FAdd(a, b)

\* a - b
F64Sub(a, b) == F64Add(a, FNeg(b))

\* the fold of one time-series into <<min_y, max_y>>
RECURSIVE RangeOfSeries(_, _)
RangeOfSeries(time_series, acc) ==
    IF time_series = <<>> THEN acc
    ELSE RangeOfSeries(Tail(time_series),
                       <<FMin(acc[1], Head(time_series)),
                         FMax(acc[2], Head(time_series))>>)

\* the fold of the time-seriess whose names have an index
RECURSIVE RangeOfSeriess(_, _, _, _)
RangeOfSeriess(names, indices, time_seriess, acc) ==
    IF names = {} THEN acc
    ELSE LET name == CHOOSE n \in names : TRUE
         IN  RangeOfSeriess(names \ {name}, indices, time_seriess,
                            IF name \notin indices THEN acc
                            ELSE RangeOfSeries(time_seriess[name], acc))

\* compute_range: <<min_y, max_y>>
compute_range(top_padding, indices, time_seriess) ==
    LET r == RangeOfSeriess(DOMAIN time_seriess, indices, time_seriess,
                            <<Num(F64_MAX), Num(F64_MIN)>>)
        padding == IF top_padding.some THEN top_padding.v ELSE Num(0)
    IN  <<r[1], F64Add(r[2], FMul(padding, F64Sub(r[2], r[1])))>>

\* the divisor of the increment: min_y_range / 10.0
IncrementDivisor == 10

\* the condition of the while loop: max_y - min_y < min_y_range
RangeTooNarrow(range, min_y_range) ==
    FLt(F64Sub(range[2], range[1]), min_y_range)

\* the body of the while loop
Widened(range, min_y_range) ==
    LET increment == FQuot(min_y_range, Num(IncrementDivisor))
    IN  <<F64Sub(range[1], increment), F64Add(range[2], increment)>>

\* iterations counts the runs of the body up to MaxIterations and stays
\* there: the loop itself has no bound
MaxIterations == 6

\* a time-series holds at most MaxSeriesLength points
MaxSeriesLength == 2

TrendValues == {Num(-1), Num(0), Frac(3, 2)}

SeriesNames == {"indoor", "outdoor"}

TimeSeriess ==
    UNION {[names -> UNION {[1..n -> TrendValues] : n \in 0..MaxSeriesLength}] :
           names \in SUBSET SeriesNames}

TopPaddings == {None, Some(Num(0)), Some(Frac(1, 5))}

MinYRanges == {None, Some(Frac(1, 2)), Some(Num(1)), Some(Num(3))}

InitTrend ==
    /\ KernelIdle
    /\ DurIdle
    /\ FbIdle
    /\ InfluxIdle
    /\ PeriodIdle
    /\ TrendIdle

\* create_chart_context is called: let (mut min_y, mut max_y) =
\* compute_range(...), and if let Some(min_y_range) = min_y_range
ComputeRange ==
    /\ trendPc = "idle"
    /\ \E time_seriess \in TimeSeriess, top_padding \in TopPaddings,
          min_y_range \in MinYRanges :
        \E indices \in SUBSET (DOMAIN time_seriess) :
            /\ trend' = Some([top_padding |-> top_padding,
                              min_y_range |-> min_y_range,
                              indices |-> indices,
                              time_seriess |-> time_seriess])
            /\ rangeY' = Some(compute_range(top_padding, indices,
                                            time_seriess))
            /\ trendPc' = IF min_y_range.some THEN "while" ELSE "returned"
    /\ UNCHANGED <<iterations, kernelVars, durVars, fbVars, influxVars,
                   periodVars>>

\* the condition of the while loop holds
WhileContinue ==
    /\ trendPc = "while"
    /\ RangeTooNarrow(rangeY.v, trend.v.min_y_range.v)
    /\ trendPc' = "body"
    /\ UNCHANGED <<trend, rangeY, iterations, kernelVars, durVars, fbVars,
                   influxVars, periodVars>>

\* min_y -= increment; max_y += increment
WhileBody ==
    /\ trendPc = "body"
    /\ rangeY' = Some(Widened(rangeY.v, trend.v.min_y_range.v))
    /\ iterations' = IF iterations < MaxIterations THEN iterations + 1
                     ELSE iterations
    /\ trendPc' = "while"
    /\ UNCHANGED <<trend, kernelVars, durVars, fbVars, influxVars, periodVars>>

\* the condition of the while loop fails: the chart is built
WhileExit ==
    /\ trendPc = "while"
    /\ ~RangeTooNarrow(rangeY.v, trend.v.min_y_range.v)
    /\ trendPc' = "returned"
    /\ UNCHANGED <<trend, rangeY, iterations, kernelVars, durVars, fbVars,
                   influxVars, periodVars>>

NextTrend ==
    \/ ComputeRange
    \/ WhileContinue
    \/ WhileBody
    \/ WhileExit

SpecTrend == InitTrend /\ [][NextTrend]_vars

\* the range compute_range returned is not negative
InitialRangeNonNegative ==
    LET r == compute_range(trend.v.top_padding, trend.v.indices,
                           trend.v.time_seriess)
    IN  FLe(r[1], r[2])

\* no data point is included in the range
NoDataPoint ==
    \A name \in trend.v.indices : trend.v.time_seriess[name] = <<>>

\* the body of the loop runs only when the condition holds, and the
\* condition reads nothing but the range: a run of the body that leaves the
\* range as it was is followed by the same run again, without end
BodyWidensRange == [][WhileBody => rangeY' # rangeY]_vars

\* a call from a non-negative range runs the body of the loop at most 5 times
AtMostFiveIterations ==
    (trend.some /\ InitialRangeNonNegative) => iterations <= 5

\* C29: with a positive min_y_range the loop of create_chart_context
\* terminates for every set of time-seriess, the one without any data point
\* in the range included: no run of its body leaves the range unchanged;
\* and from a non-negative initial range the body runs at most 5 times.
C29_RangeLoopTerminates == BodyWidensRange /\ []AtMostFiveIterations

\* the loop spins on the sentinels: no data point, the range unchanged
\* after MaxIterations runs of the body, the condition still true
C29_LoopSpins ==
    /\ trend.some
    /\ NoDataPoint
    /\ trendPc = "while"
    /\ iterations = MaxIterations
    /\ rangeY.v = compute_range(trend.v.top_padding, trend.v.indices,
                                trend.v.time_seriess)
    /\ RangeTooNarrow(rangeY.v, trend.v.min_y_range.v)

====
